---- MODULE Spec2Model ----
(***************************************************************************)
(* smallset: slice-based sorted sets.                                      *)
(*   Ordered[T cmp.Ordered]  (src/ordered.go), instantiated at T = int     *)
(*   Custom[T any]           (src/custom.go),  instantiated at T = Person  *)
(*                           with the comparator PersonCmp of the tests    *)
(* Slice positions are 0-based as in Go; the TLA+ sequence index of the    *)
(* Go element x[i] is i + 1.                                               *)
(***************************************************************************)
EXTENDS Integers, Sequences, FiniteSets, TLC

VARIABLES
    kind,   \* which container type the program holds: "Ordered" or "Custom"
    items,  \* the container's items slice (s.items)
    last,   \* the last call made on the container, its results and the items before it
    prior,  \* for a Remove(e) that directly follows Add(e): that Add's result and pre-state
    it,     \* the range iterator (closure of BetweenAsc / BetweenDesc) being consumed
    otherItems,  \* the items slice of the second container of a binary operation
    sets,   \* the caller's slice of set handles given to Merge / Intersect
    res     \* what the last set-algebra call returned

vars == <<kind, items, last, prior, it, otherItems, sets, res>>

(***************************************************************************)
(* Bounds of the model                                                     *)
(***************************************************************************)
MaxElem == 3     \* elements and keys are 0..MaxElem
MaxInput == 3    \* longest batch handed to NewFrom / NewCustomFrom
MaxSets == 3     \* most sets handed to Merge / Intersect
MaxSetElem == 2  \* the sets handed to Merge / Intersect hold elements 0..MaxSetElem

Elems == 0..MaxElem
Names == {"a", "b"}
Person == [ID : Elems, Name : Names]

\* the sequences over S of length at most n
SeqsUpTo(S, n) == UNION {[1..m -> S] : m \in 0..n}

(***************************************************************************)
(* Program constants                                                       *)
(***************************************************************************)
defaultCapacity == 10
maxInsertion == 12   \* slices.Sort / SortFunc: insertion sort up to this length

(***************************************************************************)
(* Comparison                                                              *)
(***************************************************************************)
\* cmp.Less at T = int
Less(a, b) == a < b

\* the comparator of the tests, on the ID field only
PersonCmp(a, b) ==
    IF a.ID < b.ID THEN -1
    ELSE IF a.ID > b.ID THEN 1
    ELSE 0

\* the cmp field of the Custom container
cmp(a, b) == PersonCmp(a, b)

\* compareFunc.less and compareFunc.equal
less(a, b) == cmp(a, b) < 0
equal(a, b) == cmp(a, b) = 0

(***************************************************************************)
(* The slices package, as the containers use it                            *)
(***************************************************************************)
\* the search loop of slices.BinarySearch: invariant x[i-1] < target <= x[j]
RECURSIVE BinarySearchLoop(_, _, _, _)
BinarySearchLoop(x, target, i, j) ==
    IF i < j
    THEN LET h == (i + j) \div 2
         IN  IF Less(x[h + 1], target)
             THEN BinarySearchLoop(x, target, h + 1, j)
             ELSE BinarySearchLoop(x, target, i, h)
    ELSE i

\* a faulty search: found is reported without comparing the element at i
BinarySearch_NoCompare(x, target) ==
    LET i == BinarySearchLoop(x, target, 0, Len(x))
    IN  [pos |-> i, found |-> i < Len(x)]

BinarySearch(x, target) ==
    LET i == BinarySearchLoop(x, target, 0, Len(x))
    IN  [pos |-> i, found |-> i < Len(x) /\ x[i + 1] = target]

RECURSIVE BinarySearchFuncLoop(_, _, _, _)
BinarySearchFuncLoop(x, target, i, j) ==
    IF i < j
    THEN LET h == (i + j) \div 2
         IN  IF cmp(x[h + 1], target) < 0
             THEN BinarySearchFuncLoop(x, target, h + 1, j)
             ELSE BinarySearchFuncLoop(x, target, i, h)
    ELSE i

BinarySearchFunc(x, target) ==
    LET i == BinarySearchFuncLoop(x, target, 0, Len(x))
    IN  [pos |-> i, found |-> i < Len(x) /\ cmp(x[i + 1], target) = 0]

\* slices.Insert(s, i, v): v placed at position i
Insert(s, i, v) == SubSeq(s, 1, i) \o <<v>> \o SubSeq(s, i + 1, Len(s))

\* a faulty Delete: position j is removed too
Delete_Through(s, i, j) == SubSeq(s, 1, i) \o SubSeq(s, j + 2, Len(s))

\* slices.Delete(s, i, j): positions i .. j-1 removed
Delete(s, i, j) == SubSeq(s, 1, i) \o SubSeq(s, j + 1, Len(s))

\* insertion sort, the algorithm of slices.Sort for up to maxInsertion elements:
\* each element moves left while it is less than its left neighbour
RECURSIVE SortedInsert(_, _)
SortedInsert(p, e) ==
    IF p = <<>> \/ ~Less(e, p[Len(p)])
    THEN Append(p, e)
    ELSE Append(SortedInsert(SubSeq(p, 1, Len(p) - 1), e), p[Len(p)])

RECURSIVE InsertionSort(_)
InsertionSort(s) ==
    IF s = <<>> THEN <<>>
    ELSE SortedInsert(InsertionSort(SubSeq(s, 1, Len(s) - 1)), s[Len(s)])

RECURSIVE SortedInsertFunc(_, _)
SortedInsertFunc(p, e) ==
    IF p = <<>> \/ ~(cmp(e, p[Len(p)]) < 0)
    THEN Append(p, e)
    ELSE Append(SortedInsertFunc(SubSeq(p, 1, Len(p) - 1), e), p[Len(p)])

RECURSIVE InsertionSortFunc(_)
InsertionSortFunc(s) ==
    IF s = <<>> THEN <<>>
    ELSE SortedInsertFunc(InsertionSortFunc(SubSeq(s, 1, Len(s) - 1)), s[Len(s)])

IsSortedFunc(s) == \A i \in 1..(Len(s) - 1) : cmp(s[i], s[i + 1]) <= 0

Rearrangements(s) ==
    {[i \in 1..Len(s) |-> s[p[i]]] :
        p \in {q \in [1..Len(s) -> 1..Len(s)] : \A i, j \in 1..Len(s) : i # j => q[i] # q[j]}}

\* slices.Sort at T = int: the ascending arrangement (equal ints are identical)
Sort(s) == InsertionSort(s)

\* slices.SortFunc: stable (insertion sort) up to maxInsertion elements; beyond
\* that the order among equal elements is not guaranteed, so every sorted
\* arrangement is a possible outcome
\* the number of leading elements of s that compare equal to its first
RECURSIVE LeadingRun(_)
LeadingRun(s) ==
    IF Len(s) <= 1 THEN Len(s)
    ELSE IF cmp(s[1], s[2]) = 0 THEN 1 + LeadingRun(SubSeq(s, 2, Len(s)))
    ELSE 1

\* the sorted arrangements of the elements of the sorted sequence s: its runs of
\* equal elements in their order, the elements of each run in any order
RECURSIVE SortedArrangements(_)
SortedArrangements(s) ==
    IF s = <<>> THEN {<<>>}
    ELSE LET n == LeadingRun(s)
         IN  {p \o r : p \in Rearrangements(SubSeq(s, 1, n)),
                       r \in SortedArrangements(SubSeq(s, n + 1, Len(s)))}

SortFunc(s) ==
    IF Len(s) <= maxInsertion
    THEN {InsertionSortFunc(s)}
    ELSE SortedArrangements(InsertionSortFunc(s))

\* slices.Compact: of each run of consecutive equal elements the first is kept
RECURSIVE Compact(_)
Compact(s) ==
    IF Len(s) <= 1 THEN s
    ELSE LET front == Compact(SubSeq(s, 1, Len(s) - 1))
         IN  IF s[Len(s)] = s[Len(s) - 1] THEN front ELSE Append(front, s[Len(s)])

RECURSIVE CompactFunc(_)
CompactFunc(s) ==
    IF Len(s) <= 1 THEN s
    ELSE LET front == CompactFunc(SubSeq(s, 1, Len(s) - 1))
         IN  IF equal(s[Len(s)], s[Len(s) - 1]) THEN front ELSE Append(front, s[Len(s)])

(***************************************************************************)
(* Construction                                                            *)
(***************************************************************************)
\* New(capacity): panics unless capacity > 0; otherwise an empty set
New(capacity) == [err |-> capacity <= 0, items |-> <<>>]

\* a faulty NewFrom: the batch is compacted without being sorted
NewFrom_Unsorted(batch) ==
    IF Len(batch) = 0
    THEN New(defaultCapacity)
    ELSE [err |-> FALSE, items |-> Compact(batch)]

\* NewFrom(items...): a sorted, compacted copy of the batch
NewFrom(batch) ==
    IF Len(batch) = 0
    THEN New(defaultCapacity)
    ELSE [err |-> FALSE, items |-> Compact(Sort(batch))]

\* NewCustom(cmp, capacity): panics unless capacity > 0 and cmp is not nil;
\* c is "nil" or the name of the comparator
NewCustom(c, capacity) == [err |-> capacity <= 0 \/ c = "nil", items |-> <<>>]

\* NewCustomFrom(cmp, items...): the possible results, one per outcome of SortFunc
NewCustomFrom(c, batch) ==
    IF Len(batch) = 0
    THEN {NewCustom(c, defaultCapacity)}
    ELSE IF c = "nil"
    THEN {[err |-> TRUE, items |-> <<>>]}
    ELSE {[err |-> FALSE, items |-> CompactFunc(r)] : r \in SortFunc(batch)}

(***************************************************************************)
(* Ordered: queries and mutations. Each operator takes the items slice s   *)
(* and gives the method's results and the items slice it leaves.           *)
(***************************************************************************)
Ordered_Size(s) == Len(s)

Ordered_Items(s) == s

Ordered_Contains(s, e) == BinarySearch(s, e).found

Ordered_At(s, i) ==
    IF i < 0 \/ i >= Len(s)
    THEN [err |-> TRUE]
    ELSE [err |-> FALSE, v |-> s[i + 1]]

Ordered_Find(s, e) == BinarySearch(s, e)

\* a faulty Add: the new element is appended, not inserted at its position
Ordered_Add_Append(s, e) ==
    LET r == BinarySearch(s, e)
    IN  IF r.found
        THEN [items |-> s, ok |-> FALSE]
        ELSE [items |-> Append(s, e), ok |-> TRUE]

Ordered_Add(s, e) ==
    LET r == BinarySearch(s, e)
    IN  IF r.found
        THEN [items |-> s, ok |-> FALSE]
        ELSE [items |-> Insert(s, r.pos, e), ok |-> TRUE]

\* a faulty Remove: the element after the one found is deleted
Ordered_Remove_Next(s, e) ==
    LET r == BinarySearch(s, e)
    IN  IF ~r.found
        THEN [items |-> s, ok |-> FALSE]
        ELSE [items |-> Delete(s, r.pos + 1, r.pos + 2), ok |-> TRUE]

Ordered_Remove(s, e) ==
    LET r == BinarySearch(s, e)
    IN  IF ~r.found
        THEN [items |-> s, ok |-> FALSE]
        ELSE [items |-> Delete(s, r.pos, r.pos + 1), ok |-> TRUE]

Ordered_RemoveBefore(s, max) ==
    LET end == BinarySearch(s, max).pos
    IN  IF end = 0
        THEN [items |-> s, n |-> 0]
        ELSE [items |-> Delete(s, 0, end), n |-> end]

\* a faulty RemoveFrom: an element equal to min is kept
Ordered_RemoveFrom_After(s, min) ==
    LET r == BinarySearch(s, min)
        start == IF r.found THEN r.pos + 1 ELSE r.pos
    IN  IF start = Len(s)
        THEN [items |-> s, n |-> 0]
        ELSE [items |-> Delete(s, start, Len(s)), n |-> Len(s) - start]

Ordered_RemoveFrom(s, min) ==
    LET start == BinarySearch(s, min).pos
    IN  IF start = Len(s)
        THEN [items |-> s, n |-> 0]
        ELSE [items |-> Delete(s, start, Len(s)), n |-> Len(s) - start]

\* a faulty RemoveBetween: an element equal to max is removed too
Ordered_RemoveBetween_Closed(s, min, max) ==
    IF Less(max, min)
    THEN [err |-> TRUE, items |-> s, n |-> 0]
    ELSE LET start == BinarySearch(s, min).pos
             r == BinarySearch(s, max)
             end == IF r.found THEN r.pos + 1 ELSE r.pos
         IN  IF start = end
             THEN [err |-> FALSE, items |-> s, n |-> 0]
             ELSE [err |-> FALSE, items |-> Delete(s, start, end), n |-> end - start]

Ordered_RemoveBetween(s, min, max) ==
    IF Less(max, min)
    THEN [err |-> TRUE, items |-> s, n |-> 0]
    ELSE LET start == BinarySearch(s, min).pos
             end == BinarySearch(s, max).pos
         IN  IF start = end
             THEN [err |-> FALSE, items |-> s, n |-> 0]
             ELSE [err |-> FALSE, items |-> Delete(s, start, end), n |-> end - start]

\* Clear: the elements are zeroed and the length reset to 0
Ordered_Clear(s) == SubSeq(s, 1, 0)

(***************************************************************************)
(* Custom: the same methods, every comparison through the cmp field        *)
(***************************************************************************)
Custom_Size(s) == Len(s)

Custom_Items(s) == s

Custom_Contains(s, e) == BinarySearchFunc(s, e).found

Custom_At(s, i) ==
    IF i < 0 \/ i >= Len(s)
    THEN [err |-> TRUE]
    ELSE [err |-> FALSE, v |-> s[i + 1]]

Custom_Find(s, e) == BinarySearchFunc(s, e)

\* a faulty Add: an equivalent element already present is overwritten
Custom_Add_Overwrite(s, e) ==
    LET r == BinarySearchFunc(s, e)
    IN  IF r.found
        THEN [items |-> [s EXCEPT ![r.pos + 1] = e], ok |-> FALSE]
        ELSE [items |-> Insert(s, r.pos, e), ok |-> TRUE]

Custom_Add(s, e) ==
    LET r == BinarySearchFunc(s, e)
    IN  IF r.found
        THEN [items |-> s, ok |-> FALSE]
        ELSE [items |-> Insert(s, r.pos, e), ok |-> TRUE]

Custom_Remove(s, e) ==
    LET r == BinarySearchFunc(s, e)
    IN  IF ~r.found
        THEN [items |-> s, ok |-> FALSE]
        ELSE [items |-> Delete(s, r.pos, r.pos + 1), ok |-> TRUE]

\* a faulty RemoveBefore: an element equivalent to max is removed too
Custom_RemoveBefore_Through(s, max) ==
    LET r == BinarySearchFunc(s, max)
        end == IF r.found THEN r.pos + 1 ELSE r.pos
    IN  IF end = 0
        THEN [items |-> s, n |-> 0]
        ELSE [items |-> Delete(s, 0, end), n |-> end]

Custom_RemoveBefore(s, max) ==
    LET end == BinarySearchFunc(s, max).pos
    IN  IF end = 0
        THEN [items |-> s, n |-> 0]
        ELSE [items |-> Delete(s, 0, end), n |-> end]

Custom_RemoveFrom(s, min) ==
    LET start == BinarySearchFunc(s, min).pos
    IN  IF start = Len(s)
        THEN [items |-> s, n |-> 0]
        ELSE [items |-> Delete(s, start, Len(s)), n |-> Len(s) - start]

Custom_RemoveBetween(s, min, max) ==
    IF less(max, min)
    THEN [err |-> TRUE, items |-> s, n |-> 0]
    ELSE LET start == BinarySearchFunc(s, min).pos
             end == BinarySearchFunc(s, max).pos
         IN  IF start = end
             THEN [err |-> FALSE, items |-> s, n |-> 0]
             ELSE [err |-> FALSE, items |-> Delete(s, start, end), n |-> end - start]

Custom_Clear(s) == SubSeq(s, 1, 0)

(***************************************************************************)
(* Range iteration: BetweenAsc computes start when it is called; the       *)
(* closure it returns reads the live items slice at every step.            *)
(***************************************************************************)
Ordered_BetweenAsc(s, min, max) ==
    IF Less(max, min)
    THEN [err |-> TRUE, start |-> 0]
    ELSE [err |-> FALSE, start |-> BinarySearch(s, min).pos]

\* a faulty loop: an element equal to max is yielded too
Ordered_AscStep_Inclusive(s, i, max) ==
    IF i < Len(s)
    THEN IF Less(max, s[i + 1])
         THEN [yield |-> FALSE]
         ELSE [yield |-> TRUE, i |-> i, v |-> s[i + 1]]
    ELSE [yield |-> FALSE]

\* one turn of the closure's loop at index i
Ordered_AscStep(s, i, max) ==
    IF i < Len(s)
    THEN IF ~Less(s[i + 1], max)
         THEN [yield |-> FALSE]
         ELSE [yield |-> TRUE, i |-> i, v |-> s[i + 1]]
    ELSE [yield |-> FALSE]

Custom_BetweenAsc(s, min, max) ==
    IF less(max, min)
    THEN [err |-> TRUE, start |-> 0]
    ELSE [err |-> FALSE, start |-> BinarySearchFunc(s, min).pos]

Custom_AscStep(s, i, max) ==
    IF i < Len(s)
    THEN IF ~less(s[i + 1], max)
         THEN [yield |-> FALSE]
         ELSE [yield |-> TRUE, i |-> i, v |-> s[i + 1]]
    ELSE [yield |-> FALSE]

\* BetweenDesc computes end when it is called: the position of max, or the
\* position before the one where max would be inserted, but never below 0
Ordered_BetweenDesc(s, max, min) ==
    IF Less(max, min)
    THEN [err |-> TRUE, end |-> 0]
    ELSE LET r == BinarySearch(s, max)
         IN  [err |-> FALSE, end |-> IF ~r.found /\ r.pos > 0 THEN r.pos - 1 ELSE r.pos]

\* one turn of the closure's loop at index i: s.items[i] is read unchecked, so an
\* index that is not below len(s.items) is a run-time panic
Ordered_DescStep(s, i, min) ==
    IF i >= 0
    THEN IF i >= Len(s)
         THEN [yield |-> FALSE, panic |-> TRUE]
         ELSE IF ~Less(min, s[i + 1])
         THEN [yield |-> FALSE, panic |-> FALSE]
         ELSE [yield |-> TRUE, panic |-> FALSE, i |-> i, v |-> s[i + 1]]
    ELSE [yield |-> FALSE, panic |-> FALSE]

Custom_BetweenDesc(s, max, min) ==
    IF less(max, min)
    THEN [err |-> TRUE, end |-> 0]
    ELSE LET r == BinarySearchFunc(s, max)
         IN  [err |-> FALSE, end |-> IF ~r.found /\ r.pos > 0 THEN r.pos - 1 ELSE r.pos]

Custom_DescStep(s, i, min) ==
    IF i >= 0
    THEN IF i >= Len(s)
         THEN [yield |-> FALSE, panic |-> TRUE]
         ELSE IF ~less(min, s[i + 1])
         THEN [yield |-> FALSE, panic |-> FALSE]
         ELSE [yield |-> TRUE, panic |-> FALSE, i |-> i, v |-> s[i + 1]]
    ELSE [yield |-> FALSE, panic |-> FALSE]

(***************************************************************************)
(* Set algebra of Ordered. Every operation returns                         *)
(*   err  : the call panicked (New was given a capacity <= 0)              *)
(*   recv : the receiver's items after the call                            *)
(*   arg  : the argument's items after the call                            *)
(*   out  : the returned sets, each with its items and the array that      *)
(*          holds them ("new": allocated by make or slices.Clone)          *)
(* No operation assigns to s.items or other.items, and append writes only  *)
(* to the array that New allocated.                                        *)
(***************************************************************************)
minInt(a, b) == IF a < b THEN a ELSE b

Returned(err, s, o, out) == [err |-> err, recv |-> s, arg |-> o, out |-> out]

\* the set that New(capacity) returns, after its items have grown to x
Made(x) == [items |-> x, array |-> "new"]

\* Clone that hands out the receiver's own slice
Ordered_Clone_Shared(s) == [items |-> s, array |-> "recv"]

Ordered_Clone(s) == [items |-> s, array |-> "new"]

\* s[i:] of a Go slice
From(s, i) == SubSeq(s, i + 1, Len(s))

\* the loop with the elements of s below o_j kept instead of skipped
RECURSIVE Ordered_IntersectLoop_KeepLess(_, _, _, _, _)
Ordered_IntersectLoop_KeepLess(s, o, i, j, inter) ==
    IF i < Len(s) /\ j < Len(o)
    THEN LET s_i == s[i + 1]
             o_j == o[j + 1]
         IN  IF s_i < o_j
             THEN Ordered_IntersectLoop_KeepLess(s, o, i + 1, j, Append(inter, s_i))
             ELSE IF o_j < s_i THEN Ordered_IntersectLoop_KeepLess(s, o, i, j + 1, inter)
             ELSE Ordered_IntersectLoop_KeepLess(s, o, i + 1, j + 1, Append(inter, s_i))
    ELSE inter

RECURSIVE Ordered_IntersectLoop(_, _, _, _, _)
Ordered_IntersectLoop(s, o, i, j, inter) ==
    IF i < Len(s) /\ j < Len(o)
    THEN LET s_i == s[i + 1]
             o_j == o[j + 1]
         IN  IF s_i < o_j THEN Ordered_IntersectLoop(s, o, i + 1, j, inter)
             ELSE IF o_j < s_i THEN Ordered_IntersectLoop(s, o, i, j + 1, inter)
             ELSE Ordered_IntersectLoop(s, o, i + 1, j + 1, Append(inter, s_i))
    ELSE inter

\* Intersect written in place: the kept elements overwrite the receiver's items
Ordered_Intersect_InPlace(s, other) ==
    Returned(FALSE, Ordered_IntersectLoop(s, other, 0, 0, <<>>), other,
             <<Made(Ordered_IntersectLoop(s, other, 0, 0, <<>>))>>)

\* Intersect without the size == 0 shortcut: New(0) for an empty input
Ordered_Intersect_NoShortcut(s, other) ==
    Returned(New(minInt(Ordered_Size(s), Ordered_Size(other))).err, s, other,
             <<Made(Ordered_IntersectLoop(s, other, 0, 0, <<>>))>>)

Ordered_Intersect(s, other) ==
    LET size == minInt(Ordered_Size(s), Ordered_Size(other))
    IN  IF size = 0
        THEN Returned(New(defaultCapacity).err, s, other, <<Made(New(defaultCapacity).items)>>)
        ELSE Returned(New(size).err, s, other,
                      <<Made(Ordered_IntersectLoop(s, other, 0, 0, New(size).items))>>)

RECURSIVE Ordered_DifferenceLoop(_, _, _, _, _)
Ordered_DifferenceLoop(s, o, i, j, diff) ==
    IF i < Len(s) /\ j < Len(o)
    THEN LET s_i == s[i + 1]
             o_j == o[j + 1]
         IN  IF s_i < o_j THEN Ordered_DifferenceLoop(s, o, i + 1, j, Append(diff, s_i))
             ELSE IF o_j < s_i THEN Ordered_DifferenceLoop(s, o, i, j + 1, diff)
             ELSE Ordered_DifferenceLoop(s, o, i + 1, j + 1, diff)
    ELSE [i |-> i, j |-> j, diff |-> diff]

\* Difference that returns what the loop collected, without the tail s.items[i:]
Ordered_Difference_NoTail(s, other) ==
    Returned(FALSE, s, other, <<Made(Ordered_DifferenceLoop(s, other, 0, 0, <<>>).diff)>>)

Ordered_Difference(s, other) ==
    IF Len(s) = 0
    THEN Returned(New(defaultCapacity).err, s, other, <<Made(New(defaultCapacity).items)>>)
    ELSE IF Len(other) = 0
    THEN Returned(FALSE, s, other, <<Ordered_Clone(s)>>)
    ELSE LET l == Ordered_DifferenceLoop(s, other, 0, 0, New(Ordered_Size(s)).items)
         IN  Returned(New(Ordered_Size(s)).err, s, other, <<Made(l.diff \o From(s, l.i))>>)

RECURSIVE Ordered_SymmetricDifferenceLoop(_, _, _, _, _)
Ordered_SymmetricDifferenceLoop(s, o, i, j, sdiff) ==
    IF i < Len(s) /\ j < Len(o)
    THEN LET s_i == s[i + 1]
             o_j == o[j + 1]
         IN  IF s_i < o_j
             THEN Ordered_SymmetricDifferenceLoop(s, o, i + 1, j, Append(sdiff, s_i))
             ELSE IF o_j < s_i
             THEN Ordered_SymmetricDifferenceLoop(s, o, i, j + 1, Append(sdiff, o_j))
             ELSE Ordered_SymmetricDifferenceLoop(s, o, i + 1, j + 1, sdiff)
    ELSE [i |-> i, j |-> j, sdiff |-> sdiff]

\* SymmetricDifference without the last append, of the tail other.items[j:]
Ordered_SymmetricDifference_NoOtherTail(s, other) ==
    LET l == Ordered_SymmetricDifferenceLoop(s, other, 0, 0, <<>>)
    IN  Returned(FALSE, s, other, <<Made(l.sdiff \o From(s, l.i))>>)

Ordered_SymmetricDifference(s, other) ==
    IF Len(s) = 0
    THEN Returned(FALSE, s, other, <<Ordered_Clone(other)>>)
    ELSE IF Len(other) = 0
    THEN Returned(FALSE, s, other, <<Ordered_Clone(s)>>)
    ELSE LET size == Ordered_Size(s) + Ordered_Size(other)
             l == Ordered_SymmetricDifferenceLoop(s, other, 0, 0, New(size).items)
         IN  Returned(New(size).err, s, other,
                      <<Made((l.sdiff \o From(s, l.i)) \o From(other, l.j))>>)

RECURSIVE Ordered_UnionLoop(_, _, _, _, _)
Ordered_UnionLoop(s, o, i, j, union) ==
    IF i < Len(s) /\ j < Len(o)
    THEN LET s_i == s[i + 1]
             o_j == o[j + 1]
         IN  IF s_i < o_j THEN Ordered_UnionLoop(s, o, i + 1, j, Append(union, s_i))
             ELSE IF o_j < s_i THEN Ordered_UnionLoop(s, o, i, j + 1, Append(union, o_j))
             ELSE Ordered_UnionLoop(s, o, i + 1, j + 1, Append(union, s_i))
    ELSE [i |-> i, j |-> j, union |-> union]

\* Union without the test for an empty other and without the tail other.items[j:]
Ordered_Union_NoOtherTail(s, other) ==
    LET l == Ordered_UnionLoop(s, other, 0, 0, <<>>)
    IN  Returned(FALSE, s, other, <<Made(l.union \o From(s, l.i))>>)

Ordered_Union(s, other) ==
    IF Len(s) = 0
    THEN Returned(FALSE, s, other, <<Ordered_Clone(other)>>)
    ELSE IF Len(other) = 0
    THEN Returned(FALSE, s, other, <<Ordered_Clone(s)>>)
    ELSE LET size == Ordered_Size(s) + Ordered_Size(other)
             l == Ordered_UnionLoop(s, other, 0, 0, New(size).items)
         IN  Returned(New(size).err, s, other,
                      <<Made((l.union \o From(s, l.i)) \o From(other, l.j))>>)

RECURSIVE Ordered_PartitionLoop(_, _, _, _, _, _, _)
Ordered_PartitionLoop(s1, s2, i, j, d12, inter, d21) ==
    IF i < Len(s1) /\ j < Len(s2)
    THEN LET e1 == s1[i + 1]
             e2 == s2[j + 1]
         IN  IF e1 < e2
             THEN Ordered_PartitionLoop(s1, s2, i + 1, j, Append(d12, e1), inter, d21)
             ELSE IF e2 < e1
             THEN Ordered_PartitionLoop(s1, s2, i, j + 1, d12, inter, Append(d21, e2))
             ELSE Ordered_PartitionLoop(s1, s2, i + 1, j + 1, d12, Append(inter, e1), d21)
    ELSE [i |-> i, j |-> j, d12 |-> d12, inter |-> inter, d21 |-> d21]

\* Partition that returns the two differences in each other's place
Ordered_Partition_Swapped(s1, s2) ==
    LET l == Ordered_PartitionLoop(s1, s2, 0, 0, <<>>, <<>>, <<>>)
    IN  Returned(FALSE, s1, s2,
                 <<Made(l.d21 \o From(s2, l.j)), Made(l.inter), Made(l.d12 \o From(s1, l.i))>>)

Ordered_Partition(s1, s2) ==
    IF Len(s1) = 0
    THEN Returned(New(defaultCapacity).err, s1, s2,
                  <<Made(New(defaultCapacity).items), Made(New(defaultCapacity).items),
                    Ordered_Clone(s2)>>)
    ELSE IF Len(s2) = 0
    THEN Returned(New(defaultCapacity).err, s1, s2,
                  <<Ordered_Clone(s1), Made(New(defaultCapacity).items),
                    Made(New(defaultCapacity).items)>>)
    ELSE LET ni == minInt(Ordered_Size(s1), Ordered_Size(s2))
             l == Ordered_PartitionLoop(s1, s2, 0, 0, New(Ordered_Size(s1)).items,
                                        New(ni).items, New(Ordered_Size(s2)).items)
         IN  Returned(New(Ordered_Size(s1)).err \/ New(ni).err \/ New(Ordered_Size(s2)).err,
                      s1, s2,
                      <<Made(l.d12 \o From(s1, l.i)), Made(l.inter), Made(l.d21 \o From(s2, l.j))>>)

(***************************************************************************)
(* Set algebra of Custom: the same operations, every comparison made with  *)
(* the receiver's comparator, every new set given the receiver's           *)
(* comparator (PersonCmp here).                                            *)
(***************************************************************************)
Custom_Clone(s) == [items |-> s, array |-> "new"]

\* the loop that keeps the argument's element of an equal pair
RECURSIVE Custom_IntersectLoop_KeepOther(_, _, _, _, _)
Custom_IntersectLoop_KeepOther(s, o, i, j, inter) ==
    IF i < Len(s) /\ j < Len(o)
    THEN LET s_i == s[i + 1]
             o_j == o[j + 1]
         IN  IF less(s_i, o_j) THEN Custom_IntersectLoop_KeepOther(s, o, i + 1, j, inter)
             ELSE IF less(o_j, s_i) THEN Custom_IntersectLoop_KeepOther(s, o, i, j + 1, inter)
             ELSE Custom_IntersectLoop_KeepOther(s, o, i + 1, j + 1, Append(inter, o_j))
    ELSE inter

RECURSIVE Custom_IntersectLoop(_, _, _, _, _)
Custom_IntersectLoop(s, o, i, j, inter) ==
    IF i < Len(s) /\ j < Len(o)
    THEN LET s_i == s[i + 1]
             o_j == o[j + 1]
         IN  IF less(s_i, o_j) THEN Custom_IntersectLoop(s, o, i + 1, j, inter)
             ELSE IF less(o_j, s_i) THEN Custom_IntersectLoop(s, o, i, j + 1, inter)
             ELSE Custom_IntersectLoop(s, o, i + 1, j + 1, Append(inter, s_i))
    ELSE inter

Custom_Intersect(s, other) ==
    LET size == minInt(Custom_Size(s), Custom_Size(other))
    IN  IF size = 0
        THEN Returned(NewCustom("PersonCmp", defaultCapacity).err, s, other, <<Made(NewCustom("PersonCmp", defaultCapacity).items)>>)
        ELSE Returned(NewCustom("PersonCmp", size).err, s, other,
                      <<Made(Custom_IntersectLoop(s, other, 0, 0, NewCustom("PersonCmp", size).items))>>)

RECURSIVE Custom_DifferenceLoop(_, _, _, _, _)
Custom_DifferenceLoop(s, o, i, j, diff) ==
    IF i < Len(s) /\ j < Len(o)
    THEN LET s_i == s[i + 1]
             o_j == o[j + 1]
         IN  IF less(s_i, o_j) THEN Custom_DifferenceLoop(s, o, i + 1, j, Append(diff, s_i))
             ELSE IF less(o_j, s_i) THEN Custom_DifferenceLoop(s, o, i, j + 1, diff)
             ELSE Custom_DifferenceLoop(s, o, i + 1, j + 1, diff)
    ELSE [i |-> i, j |-> j, diff |-> diff]

Custom_Difference(s, other) ==
    IF Len(s) = 0
    THEN Returned(NewCustom("PersonCmp", defaultCapacity).err, s, other, <<Made(NewCustom("PersonCmp", defaultCapacity).items)>>)
    ELSE IF Len(other) = 0
    THEN Returned(FALSE, s, other, <<Custom_Clone(s)>>)
    ELSE LET l == Custom_DifferenceLoop(s, other, 0, 0, NewCustom("PersonCmp", Custom_Size(s)).items)
         IN  Returned(NewCustom("PersonCmp", Custom_Size(s)).err, s, other, <<Made(l.diff \o From(s, l.i))>>)

RECURSIVE Custom_SymmetricDifferenceLoop(_, _, _, _, _)
Custom_SymmetricDifferenceLoop(s, o, i, j, sdiff) ==
    IF i < Len(s) /\ j < Len(o)
    THEN LET s_i == s[i + 1]
             o_j == o[j + 1]
         IN  IF less(s_i, o_j)
             THEN Custom_SymmetricDifferenceLoop(s, o, i + 1, j, Append(sdiff, s_i))
             ELSE IF less(o_j, s_i)
             THEN Custom_SymmetricDifferenceLoop(s, o, i, j + 1, Append(sdiff, o_j))
             ELSE Custom_SymmetricDifferenceLoop(s, o, i + 1, j + 1, sdiff)
    ELSE [i |-> i, j |-> j, sdiff |-> sdiff]

Custom_SymmetricDifference(s, other) ==
    IF Len(s) = 0
    THEN Returned(FALSE, s, other, <<Custom_Clone(other)>>)
    ELSE IF Len(other) = 0
    THEN Returned(FALSE, s, other, <<Custom_Clone(s)>>)
    ELSE LET size == Custom_Size(s) + Custom_Size(other)
             l == Custom_SymmetricDifferenceLoop(s, other, 0, 0, NewCustom("PersonCmp", size).items)
         IN  Returned(NewCustom("PersonCmp", size).err, s, other,
                      <<Made((l.sdiff \o From(s, l.i)) \o From(other, l.j))>>)

\* the loop with an element of both sets appended from each of them
RECURSIVE Custom_UnionLoop_Twice(_, _, _, _, _)
Custom_UnionLoop_Twice(s, o, i, j, union) ==
    IF i < Len(s) /\ j < Len(o)
    THEN LET s_i == s[i + 1]
             o_j == o[j + 1]
         IN  IF less(s_i, o_j) THEN Custom_UnionLoop_Twice(s, o, i + 1, j, Append(union, s_i))
             ELSE IF less(o_j, s_i) THEN Custom_UnionLoop_Twice(s, o, i, j + 1, Append(union, o_j))
             ELSE Custom_UnionLoop_Twice(s, o, i + 1, j + 1, Append(Append(union, s_i), o_j))
    ELSE [i |-> i, j |-> j, union |-> union]

RECURSIVE Custom_UnionLoop(_, _, _, _, _)
Custom_UnionLoop(s, o, i, j, union) ==
    IF i < Len(s) /\ j < Len(o)
    THEN LET s_i == s[i + 1]
             o_j == o[j + 1]
         IN  IF less(s_i, o_j) THEN Custom_UnionLoop(s, o, i + 1, j, Append(union, s_i))
             ELSE IF less(o_j, s_i) THEN Custom_UnionLoop(s, o, i, j + 1, Append(union, o_j))
             ELSE Custom_UnionLoop(s, o, i + 1, j + 1, Append(union, s_i))
    ELSE [i |-> i, j |-> j, union |-> union]

Custom_Union(s, other) ==
    IF Len(s) = 0
    THEN Returned(FALSE, s, other, <<Custom_Clone(other)>>)
    ELSE IF Len(other) = 0
    THEN Returned(FALSE, s, other, <<Custom_Clone(s)>>)
    ELSE LET size == Custom_Size(s) + Custom_Size(other)
             l == Custom_UnionLoop(s, other, 0, 0, NewCustom("PersonCmp", size).items)
         IN  Returned(NewCustom("PersonCmp", size).err, s, other,
                      <<Made((l.union \o From(s, l.i)) \o From(other, l.j))>>)

RECURSIVE Custom_PartitionLoop(_, _, _, _, _, _, _)
Custom_PartitionLoop(s1, s2, i, j, d12, inter, d21) ==
    IF i < Len(s1) /\ j < Len(s2)
    THEN LET e1 == s1[i + 1]
             e2 == s2[j + 1]
         IN  IF less(e1, e2)
             THEN Custom_PartitionLoop(s1, s2, i + 1, j, Append(d12, e1), inter, d21)
             ELSE IF less(e2, e1)
             THEN Custom_PartitionLoop(s1, s2, i, j + 1, d12, inter, Append(d21, e2))
             ELSE Custom_PartitionLoop(s1, s2, i + 1, j + 1, d12, Append(inter, e1), d21)
    ELSE [i |-> i, j |-> j, d12 |-> d12, inter |-> inter, d21 |-> d21]

Custom_Partition(s1, s2) ==
    IF Len(s1) = 0
    THEN Returned(NewCustom("PersonCmp", defaultCapacity).err, s1, s2,
                  <<Made(NewCustom("PersonCmp", defaultCapacity).items), Made(NewCustom("PersonCmp", defaultCapacity).items),
                    Custom_Clone(s2)>>)
    ELSE IF Len(s2) = 0
    THEN Returned(NewCustom("PersonCmp", defaultCapacity).err, s1, s2,
                  <<Custom_Clone(s1), Made(NewCustom("PersonCmp", defaultCapacity).items),
                    Made(NewCustom("PersonCmp", defaultCapacity).items)>>)
    ELSE LET ni == minInt(Custom_Size(s1), Custom_Size(s2))
             l == Custom_PartitionLoop(s1, s2, 0, 0, NewCustom("PersonCmp", Custom_Size(s1)).items,
                                        NewCustom("PersonCmp", ni).items, NewCustom("PersonCmp", Custom_Size(s2)).items)
         IN  Returned(NewCustom("PersonCmp", Custom_Size(s1)).err \/ NewCustom("PersonCmp", ni).err \/ NewCustom("PersonCmp", Custom_Size(s2)).err,
                      s1, s2,
                      <<Made(l.d12 \o From(s1, l.i)), Made(l.inter), Made(l.d21 \o From(s2, l.j))>>)

(***************************************************************************)
(* Merge and Intersect of many Ordered sets. sets is the caller's slice of *)
(* handles; a handle is [id, items]: which set it points to and that set's *)
(* items. Both return                                                      *)
(*   err  : the call panicked                                              *)
(*   sets : the caller's slice after the call                              *)
(*   out  : the returned set                                               *)
(***************************************************************************)
ReturnedMany(err, sets_, out) == [err |-> err, sets |-> sets_, out |-> <<out>>]

\* size := 0; for _, s := range sets { size += s.Size() }
RECURSIVE TotalSize(_)
TotalSize(sets_) ==
    IF sets_ = <<>> THEN 0
    ELSE TotalSize(SubSeq(sets_, 1, Len(sets_) - 1)) + Ordered_Size(sets_[Len(sets_)].items)

\* for _, s := range sets { combined = append(combined, s.items...) }
RECURSIVE Combined(_)
Combined(sets_) ==
    IF sets_ = <<>> THEN <<>>
    ELSE Combined(SubSeq(sets_, 1, Len(sets_) - 1)) \o sets_[Len(sets_)].items

\* Merge with the combined slice sorted but not compacted
Merge_NoCompact(sets_) ==
    ReturnedMany(FALSE, sets_, Made(Sort(Combined(sets_))))

Merge(sets_) ==
    IF Len(sets_) = 0
    THEN ReturnedMany(New(defaultCapacity).err, sets_, Made(New(defaultCapacity).items))
    ELSE IF Len(sets_) = 1
    THEN ReturnedMany(FALSE, sets_, Ordered_Clone(sets_[1].items))
    ELSE IF TotalSize(sets_) = 0
    THEN ReturnedMany(New(defaultCapacity).err, sets_, Made(New(defaultCapacity).items))
    ELSE ReturnedMany(FALSE, sets_, Made(Compact(Sort(Combined(sets_)))))

\* slices.SortFunc(sets, by Size): insertion sort, so stable, up to maxInsertion
\* handles; beyond that any arrangement with ascending sizes
RECURSIVE SortedInsertBySize(_, _)
SortedInsertBySize(p, e) ==
    IF p = <<>> \/ ~(Ordered_Size(e.items) < Ordered_Size(p[Len(p)].items))
    THEN Append(p, e)
    ELSE Append(SortedInsertBySize(SubSeq(p, 1, Len(p) - 1), e), p[Len(p)])

RECURSIVE InsertionSortBySize(_)
InsertionSortBySize(s) ==
    IF s = <<>> THEN <<>>
    ELSE SortedInsertBySize(InsertionSortBySize(SubSeq(s, 1, Len(s) - 1)), s[Len(s)])

\* the sort left out
SortBySize_None(sets_) == {sets_}

SortBySize(sets_) ==
    IF Len(sets_) <= maxInsertion
    THEN {InsertionSortBySize(sets_)}
    ELSE {r \in Rearrangements(sets_) :
            \A i \in 1..(Len(r) - 1) : Ordered_Size(r[i].items) <= Ordered_Size(r[i + 1].items)}

\* the inner loop without the truncation inter.items = inter.items[:w]
RECURSIVE IntersectPass_NoTruncate(_, _, _, _, _)
IntersectPass_NoTruncate(inter, set, w, r, j) ==
    IF r < Len(inter) /\ j < Len(set)
    THEN LET candidate == inter[r + 1]
             item == set[j + 1]
         IN  IF candidate < item THEN IntersectPass_NoTruncate(inter, set, w, r + 1, j)
             ELSE IF item < candidate THEN IntersectPass_NoTruncate(inter, set, w, r, j + 1)
             ELSE IntersectPass_NoTruncate([inter EXCEPT ![w + 1] = candidate], set,
                                           w + 1, r + 1, j + 1)
    ELSE inter

\* the inner loop over one set: kept candidates are written to inter.items[w],
\* and inter.items is cut to its first w elements at the end
RECURSIVE IntersectPass(_, _, _, _, _)
IntersectPass(inter, set, w, r, j) ==
    IF r < Len(inter) /\ j < Len(set)
    THEN LET candidate == inter[r + 1]
             item == set[j + 1]
         IN  IF candidate < item THEN IntersectPass(inter, set, w, r + 1, j)
             ELSE IF item < candidate THEN IntersectPass(inter, set, w, r, j + 1)
             ELSE IntersectPass([inter EXCEPT ![w + 1] = candidate], set, w + 1, r + 1, j + 1)
    ELSE SubSeq(inter, 1, w)

\* for _, set := range sets[1:], from the handle at position k (0-based) on;
\* the function returns as soon as inter is empty
RECURSIVE IntersectRest(_, _, _)
IntersectRest(inter, sorted, k) ==
    IF k >= Len(sorted) THEN inter
    ELSE LET next == IntersectPass(inter, sorted[k + 1].items, 0, 0, 0)
         IN  IF Len(next) = 0 THEN next ELSE IntersectRest(next, sorted, k + 1)

\* the array under inter.items after the loop: every pass writes what it keeps
\* over the first cells
RECURSIVE IntersectArray(_, _, _, _)
IntersectArray(array, inter, sorted, k) ==
    IF k >= Len(sorted) THEN array
    ELSE LET next == IntersectPass(inter, sorted[k + 1].items, 0, 0, 0)
             over == next \o SubSeq(array, Len(next) + 1, Len(array))
         IN  IF Len(next) = 0 THEN over ELSE IntersectArray(over, next, sorted, k + 1)

\* the caller's handles after the call: in the order the sort left, and the
\* first one written over if inter.items were its own array
Handles(sorted, inter) ==
    IF inter.array = "recv" /\ Len(inter.items) > 0
    THEN [sorted EXCEPT ![1].items = IntersectArray(@, @, sorted, 1)]
    ELSE sorted

\* the possible outcomes, one per outcome of the sort
Intersect(sets_) ==
    IF Len(sets_) = 0
    THEN {ReturnedMany(New(defaultCapacity).err, sets_, Made(New(defaultCapacity).items))}
    ELSE IF Len(sets_) = 1
    THEN {ReturnedMany(FALSE, sets_, Ordered_Clone(sets_[1].items))}
    ELSE {LET inter == Ordered_Clone(sorted[1].items)
          IN  IF Len(inter.items) = 0
              THEN ReturnedMany(FALSE, Handles(sorted, inter), inter)
              ELSE ReturnedMany(FALSE, Handles(sorted, inter),
                                [inter EXCEPT !.items = IntersectRest(inter.items, sorted, 1)])
          : sorted \in SortBySize(sets_)}

(***************************************************************************)
(* Min, Max, MinK, MaxK: the same code in Ordered and Custom                *)
(***************************************************************************)
Ordered_IsEmpty(s) == Len(s) = 0

Ordered_Min(s) ==
    IF Ordered_IsEmpty(s) THEN [err |-> TRUE] ELSE [err |-> FALSE, v |-> s[1]]

\* Max that returns the element before the last one
Ordered_Max_Inner(s) ==
    IF Ordered_IsEmpty(s) THEN [err |-> TRUE]
    ELSE [err |-> FALSE, v |-> s[IF Len(s) > 1 THEN Len(s) - 1 ELSE 1]]

Ordered_Max(s) ==
    IF Ordered_IsEmpty(s) THEN [err |-> TRUE] ELSE [err |-> FALSE, v |-> s[Len(s)]]

\* MinK without k = min(k, s.Size()): one element too many while there is one
Ordered_MinK_Plus(s, k) ==
    IF k < 0 THEN [err |-> TRUE]
    ELSE [err |-> FALSE, out |-> Made(SubSeq(s, 1, minInt(k + 1, Ordered_Size(s))))]

\* slices.Clone(s.items[:k])
Ordered_MinK(s, k) ==
    IF k < 0 THEN [err |-> TRUE]
    ELSE [err |-> FALSE, out |-> Made(SubSeq(s, 1, minInt(k, Ordered_Size(s))))]

\* slices.Clone(s.items[len(s.items)-k:])
Ordered_MaxK(s, k) ==
    IF k < 0 THEN [err |-> TRUE]
    ELSE [err |-> FALSE, out |-> Made(From(s, Len(s) - minInt(k, Ordered_Size(s))))]

Custom_IsEmpty(s) == Len(s) = 0

Custom_Min(s) ==
    IF Custom_IsEmpty(s) THEN [err |-> TRUE] ELSE [err |-> FALSE, v |-> s[1]]

Custom_Max(s) ==
    IF Custom_IsEmpty(s) THEN [err |-> TRUE] ELSE [err |-> FALSE, v |-> s[Len(s)]]

Custom_MinK(s, k) ==
    IF k < 0 THEN [err |-> TRUE]
    ELSE [err |-> FALSE, out |-> Made(SubSeq(s, 1, minInt(k, Custom_Size(s))))]

Custom_MaxK(s, k) ==
    IF k < 0 THEN [err |-> TRUE]
    ELSE [err |-> FALSE, out |-> Made(From(s, Len(s) - minInt(k, Custom_Size(s))))]

(***************************************************************************)
(* The program: one container, the calls made on it                        *)
(***************************************************************************)
\* the values a caller passes as elements
ElemsOf(k) == IF k = "Ordered" THEN Elems ELSE Person

\* the values a caller passes to search for: the comparator reads the ID alone,
\* so one Name stands for all
ProbesOf(k) == IF k = "Ordered" THEN Elems ELSE {p \in Person : p.Name = "a"}

Batches(k) == SeqsUpTo(ElemsOf(k), MaxInput)

Comparators == {"nil", "PersonCmp"}

Capacities == {-1, 0, 1, defaultCapacity}

\* the record of a call: its name and arguments, what it returned (ok: the bool
\* of Add / Remove, n: the count of the ranged removals, err: it panicked) and
\* the items before it
Call(op, args, ok, n, err, pre) ==
    [op |-> op, args |-> args, ok |-> ok, n |-> n, err |-> err, pre |-> pre]

\* the record of a call that reads: what it returned is out ("none" when it panicked)
Query(op, args, err, pre, out) ==
    [op |-> op, args |-> args, ok |-> FALSE, n |-> 0, err |-> err, pre |-> pre, out |-> out]

\* the ints a caller passes as k or as an index: below 0, 0, up to past the size
Counts == -1..(MaxElem + 2)

NoPrior == [op |-> "none"]

NoIter == [state |-> "none"]
NoResult == [op |-> "none"]

\* a container as NewFrom / NewCustomFrom / New / NewCustom leave it
Init ==
    /\ \/ /\ kind = "Ordered"
          /\ \E batch \in Batches("Ordered") : items = NewFrom(batch).items
          /\ last = Call("NewFrom", <<>>, FALSE, 0, FALSE, <<>>)
       \/ /\ kind = "Custom"
          /\ \E batch \in Batches("Custom") :
                \E r \in NewCustomFrom("PersonCmp", batch) : items = r.items
          /\ last = Call("NewCustomFrom", <<>>, FALSE, 0, FALSE, <<>>)
    /\ prior = NoPrior
    /\ it = NoIter
    /\ otherItems = <<>>
    /\ sets = <<>>
    /\ res = NoResult

Add(e) ==
    LET r == IF kind = "Ordered" THEN Ordered_Add(items, e) ELSE Custom_Add(items, e)
    IN  /\ items' = r.items
        /\ last' = Call("Add", <<e>>, r.ok, 0, FALSE, items)
        /\ prior' = NoPrior
        /\ UNCHANGED <<kind, it, otherItems, sets, res>>

Remove(e) ==
    LET r == IF kind = "Ordered" THEN Ordered_Remove(items, e) ELSE Custom_Remove(items, e)
    IN  /\ items' = r.items
        /\ last' = Call("Remove", <<e>>, r.ok, 0, FALSE, items)
        /\ prior' = IF last.op = "Add" /\ last.args = <<e>>
                    THEN [op |-> "Add", ok |-> last.ok, pre |-> last.pre]
                    ELSE NoPrior
        /\ UNCHANGED <<kind, it, otherItems, sets, res>>

RemoveBefore(max) ==
    LET r == IF kind = "Ordered"
             THEN Ordered_RemoveBefore(items, max)
             ELSE Custom_RemoveBefore(items, max)
    IN  /\ items' = r.items
        /\ last' = Call("RemoveBefore", <<max>>, FALSE, r.n, FALSE, items)
        /\ prior' = NoPrior
        /\ UNCHANGED <<kind, it, otherItems, sets, res>>

RemoveFrom(min) ==
    LET r == IF kind = "Ordered"
             THEN Ordered_RemoveFrom(items, min)
             ELSE Custom_RemoveFrom(items, min)
    IN  /\ items' = r.items
        /\ last' = Call("RemoveFrom", <<min>>, FALSE, r.n, FALSE, items)
        /\ prior' = NoPrior
        /\ UNCHANGED <<kind, it, otherItems, sets, res>>

RemoveBetween(min, max) ==
    LET r == IF kind = "Ordered"
             THEN Ordered_RemoveBetween(items, min, max)
             ELSE Custom_RemoveBetween(items, min, max)
    IN  /\ items' = r.items
        /\ last' = Call("RemoveBetween", <<min, max>>, FALSE, r.n, r.err, items)
        /\ prior' = NoPrior
        /\ UNCHANGED <<kind, it, otherItems, sets, res>>

Clear ==
    /\ items' = IF kind = "Ordered" THEN Ordered_Clear(items) ELSE Custom_Clear(items)
    /\ last' = Call("Clear", <<>>, FALSE, 0, FALSE, items)
    /\ prior' = NoPrior
    /\ UNCHANGED <<kind, it, otherItems, sets, res>>

\* the effect of a reading call that returned r: nothing but its record
Read(op, args, r, out) ==
    /\ last' = Query(op, args, r.err, items, IF r.err THEN "none" ELSE out)
    /\ prior' = NoPrior
    /\ UNCHANGED <<kind, items, it, otherItems, sets, res>>

At(i) ==
    LET r == IF kind = "Ordered" THEN Ordered_At(items, i) ELSE Custom_At(items, i)
    IN  Read("At", <<i>>, r, r.v)

Min ==
    LET r == IF kind = "Ordered" THEN Ordered_Min(items) ELSE Custom_Min(items)
    IN  Read("Min", <<>>, r, r.v)

Max ==
    LET r == IF kind = "Ordered" THEN Ordered_Max(items) ELSE Custom_Max(items)
    IN  Read("Max", <<>>, r, r.v)

MinK(k) ==
    LET r == IF kind = "Ordered" THEN Ordered_MinK(items, k) ELSE Custom_MinK(items, k)
    IN  Read("MinK", <<k>>, r, r.out)

MaxK(k) ==
    LET r == IF kind = "Ordered" THEN Ordered_MaxK(items, k) ELSE Custom_MaxK(items, k)
    IN  Read("MaxK", <<k>>, r, r.out)

Next ==
    \/ \E e \in ElemsOf(kind) : Add(e)
    \/ \E e \in ElemsOf(kind) : Remove(e)
    \/ \E max \in ProbesOf(kind) : RemoveBefore(max)
    \/ \E min \in ProbesOf(kind) : RemoveFrom(min)
    \/ \E min, max \in ProbesOf(kind) : RemoveBetween(min, max)
    \/ Clear
    \/ \E i \in Counts : At(i)
    \/ Min
    \/ Max
    \/ \E k \in Counts : MinK(k)
    \/ \E k \in Counts : MaxK(k)

Spec == Init /\ [][Next]_vars

(***************************************************************************)
(* The constructors, applied to every batch                                *)
(***************************************************************************)
\* the program holds no container yet
InitNew ==
    /\ kind = "none"
    /\ items = <<>>
    /\ last = Call("none", <<>>, FALSE, 0, FALSE, <<>>)
    /\ prior = NoPrior
    /\ it = NoIter
    /\ otherItems = <<>>
    /\ sets = <<>>
    /\ res = NoResult

\* a constructor that panics gives no container
CallNew(capacity) ==
    LET r == New(capacity)
    IN  /\ kind' = IF r.err THEN kind ELSE "Ordered"
        /\ items' = IF r.err THEN items ELSE r.items
        /\ last' = Call("New", <<capacity>>, FALSE, 0, r.err, <<>>)
        /\ UNCHANGED <<prior, it, otherItems, sets, res>>

CallNewFrom(batch) ==
    LET r == NewFrom(batch)
    IN  /\ kind' = IF r.err THEN kind ELSE "Ordered"
        /\ items' = IF r.err THEN items ELSE r.items
        /\ last' = Call("NewFrom", <<batch>>, FALSE, 0, r.err, <<>>)
        /\ UNCHANGED <<prior, it, otherItems, sets, res>>

CallNewCustom(c, capacity) ==
    LET r == NewCustom(c, capacity)
    IN  /\ kind' = IF r.err THEN kind ELSE "Custom"
        /\ items' = IF r.err THEN items ELSE r.items
        /\ last' = Call("NewCustom", <<c, capacity>>, FALSE, 0, r.err, <<>>)
        /\ UNCHANGED <<prior, it, otherItems, sets, res>>

CallNewCustomFrom(c, batch) ==
    \E r \in NewCustomFrom(c, batch) :
        /\ kind' = IF r.err THEN kind ELSE "Custom"
        /\ items' = IF r.err THEN items ELSE r.items
        /\ last' = Call("NewCustomFrom", <<c, batch>>, FALSE, 0, r.err, <<>>)
        /\ UNCHANGED <<prior, it, otherItems, sets, res>>

\* each run makes one constructor call
Fresh == last.op = "none"

NextNew ==
    \/ Fresh /\ \E capacity \in Capacities : CallNew(capacity)
    \/ Fresh /\ \E batch \in Batches("Ordered") : CallNewFrom(batch)
    \/ Fresh /\ \E c \in Comparators, capacity \in Capacities : CallNewCustom(c, capacity)
    \/ Fresh /\ \E c \in Comparators, batch \in Batches("Custom") : CallNewCustomFrom(c, batch)

SpecNew == InitNew /\ [][NextNew]_vars

(***************************************************************************)
(* The program that builds a Custom set from a batch longer than           *)
(* maxInsertion: a short batch followed by elements with IDs of their own. *)
(***************************************************************************)
\* n elements whose IDs are above MaxElem, each ID once
Padding(n) == [i \in 1..n |-> [ID |-> MaxElem + i, Name |-> "a"]]

LongBatches ==
    {batch \o Padding(maxInsertion + 1 - Len(batch)) : batch \in Batches("Custom") \ {<<>>}}

NextLong ==
    \/ Fresh /\ \E batch \in LongBatches : CallNewCustomFrom("PersonCmp", batch)

SpecLong == InitNew /\ [][NextLong]_vars

(***************************************************************************)
(* Range iteration: a consumer ranges over BetweenAsc(min, max); every     *)
(* turn of the closure's loop is one step, reading the items as they are.  *)
(***************************************************************************)
BetweenAsc(min, max) ==
    LET r == IF kind = "Ordered"
             THEN Ordered_BetweenAsc(items, min, max)
             ELSE Custom_BetweenAsc(items, min, max)
    IN  /\ it.state # "running"
        /\ it' = [state |-> IF r.err THEN "panicked" ELSE "running",
                  dir |-> "asc", min |-> min, max |-> max, i |-> r.start, out |-> <<>>]
        /\ UNCHANGED <<kind, items, last, prior, otherItems, sets, res>>

\* the loop runs one turn: it yields (i, v) to the consumer or returns
AscStep ==
    /\ it.state = "running"
    /\ it.dir = "asc"
    /\ LET r == IF kind = "Ordered"
                THEN Ordered_AscStep(items, it.i, it.max)
                ELSE Custom_AscStep(items, it.i, it.max)
       IN  it' = IF r.yield
                 THEN [it EXCEPT !.i = it.i + 1, !.out = Append(it.out, <<r.i, r.v>>)]
                 ELSE [it EXCEPT !.state = "done"]
    /\ UNCHANGED <<kind, items, last, prior, otherItems, sets, res>>

\* the consumer breaks out of its loop: yield returns false and the closure returns
Break ==
    /\ it.state = "running"
    /\ Len(it.out) > 0
    /\ it' = [it EXCEPT !.state = "stopped"]
    /\ UNCHANGED <<kind, items, last, prior, otherItems, sets, res>>

BetweenDesc(max, min) ==
    LET r == IF kind = "Ordered"
             THEN Ordered_BetweenDesc(items, max, min)
             ELSE Custom_BetweenDesc(items, max, min)
    IN  /\ it.state # "running"
        /\ it' = [state |-> IF r.err THEN "panicked" ELSE "running",
                  dir |-> "desc", min |-> min, max |-> max, i |-> r.end, out |-> <<>>]
        /\ UNCHANGED <<kind, items, last, prior, otherItems, sets, res>>

\* the descending loop runs one turn: it yields, returns, or dies on its index
DescStep ==
    /\ it.state = "running"
    /\ it.dir = "desc"
    /\ LET r == IF kind = "Ordered"
                THEN Ordered_DescStep(items, it.i, it.min)
                ELSE Custom_DescStep(items, it.i, it.min)
       IN  it' = IF r.panic
                 THEN [it EXCEPT !.state = "crashed"]
                 ELSE IF r.yield
                 THEN [it EXCEPT !.i = it.i - 1, !.out = Append(it.out, <<r.i, r.v>>)]
                 ELSE [it EXCEPT !.state = "done"]
    /\ UNCHANGED <<kind, items, last, prior, otherItems, sets, res>>

NextIter ==
    \/ \E min, max \in ProbesOf(kind) : BetweenAsc(min, max)
    \/ AscStep
    \/ \E max, min \in ProbesOf(kind) : BetweenDesc(max, min)
    \/ DescStep
    \/ Break

SpecIter == Init /\ [][NextIter]_vars

(***************************************************************************)
(* The program that holds two sets of one type and applies the binary set  *)
(* algebra to them: items is the receiver's slice, otherItems the          *)
(* argument's. The two sets are any that NewFrom / NewCustomFrom can       *)
(* build, the same set twice included.                                     *)
(***************************************************************************)
OrderedSets == {NewFrom(batch).items : batch \in Batches("Ordered")}

CustomSets == UNION {{r.items : r \in NewCustomFrom("PersonCmp", batch)} : batch \in Batches("Custom")}

SetsOf(k) == IF k = "Ordered" THEN OrderedSets ELSE CustomSets

\* what an algebra call returned: the sets, and whether it panicked
Result(op, r) == [op |-> op, err |-> r.err, out |-> r.out]

InitAlgebra ==
    /\ kind \in {"Ordered", "Custom"}
    /\ items \in SetsOf(kind)
    /\ otherItems \in SetsOf(kind)
    /\ last = Call(IF kind = "Ordered" THEN "NewFrom" ELSE "NewCustomFrom", <<>>, FALSE, 0, FALSE, <<>>)
    /\ prior = NoPrior
    /\ it = NoIter
    /\ sets = <<>>
    /\ res = NoResult

\* the effect of a binary operation that returned r
Binary(op, r) ==
    /\ items' = r.recv
    /\ otherItems' = r.arg
    /\ res' = Result(op, r)
    /\ last' = Call(op, <<otherItems>>, FALSE, 0, r.err, items)
    /\ UNCHANGED <<kind, prior, it, sets>>

CallIntersect ==
    Binary("Intersect", IF kind = "Ordered" THEN Ordered_Intersect(items, otherItems)
                        ELSE Custom_Intersect(items, otherItems))

CallDifference ==
    Binary("Difference", IF kind = "Ordered" THEN Ordered_Difference(items, otherItems)
                         ELSE Custom_Difference(items, otherItems))

CallSymmetricDifference ==
    Binary("SymmetricDifference",
           IF kind = "Ordered" THEN Ordered_SymmetricDifference(items, otherItems)
           ELSE Custom_SymmetricDifference(items, otherItems))

CallUnion ==
    Binary("Union", IF kind = "Ordered" THEN Ordered_Union(items, otherItems)
                    ELSE Custom_Union(items, otherItems))

CallPartition ==
    Binary("Partition", IF kind = "Ordered" THEN Ordered_Partition(items, otherItems)
                        ELSE Custom_Partition(items, otherItems))

\* no algebra call made yet on the two sets
Untouched == res.op = "none"

\* the program makes one call on the two sets it built
NextAlgebra ==
    \/ Untouched /\ CallIntersect
    \/ Untouched /\ CallDifference
    \/ Untouched /\ CallSymmetricDifference
    \/ Untouched /\ CallUnion
    \/ Untouched /\ CallPartition

SpecAlgebra == InitAlgebra /\ [][NextAlgebra]_vars

(***************************************************************************)
(* The program that holds a slice of Ordered sets and hands it to Merge or *)
(* to Intersect.                                                           *)
(***************************************************************************)
SetElems == 0..MaxSetElem

\* the sets NewFrom builds from the elements 0..MaxSetElem
SmallSets == {s \in OrderedSets : \A i \in 1..Len(s) : s[i] \in SetElems}

\* the slice of handles to the sets with the items c[1], c[2], ...: the handle
\* at position i points to the i-th set built
HandlesOf(c) == [i \in 1..Len(c) |-> [id |-> i, items |-> c[i]]]

InitMany ==
    /\ kind = "Ordered"
    /\ items = <<>>
    /\ otherItems = <<>>
    /\ \E c \in SeqsUpTo(SmallSets, MaxSets) : sets = HandlesOf(c)
    /\ last = Call("NewFrom", <<>>, FALSE, 0, FALSE, <<>>)
    /\ prior = NoPrior
    /\ it = NoIter
    /\ res = NoResult

\* the effect of a call on the slice that returned r
Many(op, r) ==
    /\ sets' = r.sets
    /\ res' = Result(op, r)
    /\ last' = Call(op, <<>>, FALSE, 0, r.err, sets)
    /\ UNCHANGED <<kind, items, otherItems, prior, it>>

CallMerge == Many("Merge", Merge(sets))

CallIntersectSets == \E r \in Intersect(sets) : Many("IntersectSets", r)

NextMany ==
    \/ Untouched /\ CallMerge
    \/ Untouched /\ CallIntersectSets

SpecMany == InitMany /\ [][NextMany]_vars

(***************************************************************************)
(* The program that holds a set (items), takes a value from it with Clone, *)
(* Items, MinK, MaxK or a set operation (otherItems) and then goes on      *)
(* changing either of the two. res says what the value is:                 *)
(*   form   : "set" (Clone and the set operations) or "slice" (a []T)      *)
(*   shared : the value's slice and s.items are views of one array, both   *)
(*            starting at its first cell                                   *)
(*   mem    : the cells of that array, up to its capacity                  *)
(*   by     : which of the two the last call changed: "source" or "copy"   *)
(* A slice that slices.Clone or make allocated is a view of its own array. *)
(***************************************************************************)
\* the elements used here; for Custom two IDs, each under both Names
StoreElems(k) == IF k = "Ordered" THEN Elems ELSE {p \in Person : p.ID <= 1}

StoreProbes(k) == IF k = "Ordered" THEN Elems ELSE {p \in Person : p.ID <= 1 /\ p.Name = "a"}

StoreSets(k) == {s \in SetsOf(k) : \A i \in 1..Len(s) : s[i] \in StoreElems(k)}

\* the zero value of T, left by slices.Delete and clear in the cells they free
Zero(k) == IF k = "Ordered" THEN 0 ELSE [ID |-> 0, Name |-> ""]

\* a value of T that is in no set, for the caller to write into a slice
Marker(k) == IF k = "Ordered" THEN 0 - 1 ELSE [ID |-> 0 - 1, Name |-> "x"]

Zeros(k, n) == [i \in 1..n |-> Zero(k)]

Held(op, form, shared, mem) ==
    [op |-> op, form |-> form, shared |-> shared, mem |-> mem, by |-> "none"]

\* the mutating calls on a set with the items s: the items each leaves, and
\* whether it zeroes the cells it frees (all but Custom.Clear do)
MutationsOf(k, s) ==
    {[items |-> (IF k = "Ordered" THEN Ordered_Add(s, e) ELSE Custom_Add(s, e)).items,
      zeroes |-> TRUE] : e \in StoreElems(k)}
    \cup {[items |-> (IF k = "Ordered" THEN Ordered_Remove(s, e) ELSE Custom_Remove(s, e)).items,
           zeroes |-> TRUE] : e \in StoreElems(k)}
    \cup {[items |-> (IF k = "Ordered" THEN Ordered_RemoveBefore(s, e)
                      ELSE Custom_RemoveBefore(s, e)).items,
           zeroes |-> TRUE] : e \in StoreProbes(k)}
    \cup {[items |-> (IF k = "Ordered" THEN Ordered_RemoveFrom(s, e)
                      ELSE Custom_RemoveFrom(s, e)).items,
           zeroes |-> TRUE] : e \in StoreProbes(k)}
    \cup {[items |-> (IF k = "Ordered" THEN Ordered_RemoveBetween(s, e[1], e[2])
                      ELSE Custom_RemoveBetween(s, e[1], e[2])).items,
           zeroes |-> TRUE] : e \in StoreProbes(k) \X StoreProbes(k)}
    \cup {[items |-> IF k = "Ordered" THEN Ordered_Clear(s) ELSE Custom_Clear(s),
           zeroes |-> k = "Ordered"]}

\* the array after a slice of it that held old was changed in place to hold new
Written(k, mem, old, new, zeroes) ==
    LET top == IF Len(old) > Len(new) THEN Len(old) ELSE Len(new)
    IN  (new \o (IF zeroes /\ Len(old) > Len(new)
                 THEN Zeros(k, Len(old) - Len(new))
                 ELSE SubSeq(mem, Len(new) + 1, top)))
            \o SubSeq(mem, top + 1, Len(mem))

\* the slice of length n over the array
View(mem, n) == SubSeq(mem, 1, n)

InitStore ==
    /\ kind \in {"Ordered", "Custom"}
    /\ items \in StoreSets(kind)
    /\ otherItems = <<>>
    /\ last = Call(IF kind = "Ordered" THEN "NewFrom" ELSE "NewCustomFrom", <<>>, FALSE, 0, FALSE, <<>>)
    /\ prior = NoPrior
    /\ it = NoIter
    /\ sets = <<>>
    /\ res = NoResult

\* the caller takes the value r, whose items are in the array r.array ("new", or
\* the array of the set that is items here: src); the array has the capacity of
\* the items, or room for one more
Obtain(op, form, r, src) ==
    /\ otherItems' = r.items
    /\ \E spare \in 0..1 :
          res' = Held(op, form, r.array = src,
                      IF r.array = src THEN items \o Zeros(kind, spare) ELSE <<>>)
    /\ UNCHANGED <<kind, items, last, prior, it, sets>>

ObtainClone ==
    Obtain("Clone", "set", IF kind = "Ordered" THEN Ordered_Clone(items) ELSE Custom_Clone(items),
           "recv")

\* Items: slices.Clone(s.items)
ObtainItems ==
    Obtain("Items", "slice",
           Made(IF kind = "Ordered" THEN Ordered_Items(items) ELSE Custom_Items(items)), "recv")

ObtainMinK(k) ==
    LET r == IF kind = "Ordered" THEN Ordered_MinK(items, k) ELSE Custom_MinK(items, k)
    IN  ~r.err /\ Obtain("MinK", "slice", r.out, "recv")

ObtainMaxK(k) ==
    LET r == IF kind = "Ordered" THEN Ordered_MaxK(items, k) ELSE Custom_MaxK(items, k)
    IN  ~r.err /\ Obtain("MaxK", "slice", r.out, "recv")

\* the results of the binary operations on the sets a (receiver) and b
BinaryResults(k, a, b) ==
    IF k = "Ordered"
    THEN {Ordered_Intersect(a, b), Ordered_Difference(a, b), Ordered_SymmetricDifference(a, b),
          Ordered_Union(a, b), Ordered_Partition(a, b)}
    ELSE {Custom_Intersect(a, b), Custom_Difference(a, b), Custom_SymmetricDifference(a, b),
          Custom_Union(a, b), Custom_Partition(a, b)}

\* a set returned by a binary operation of the held set with a set b, the held
\* set being the receiver
ObtainFromReceiver(b) ==
    \E r \in BinaryResults(kind, items, b) : \E n \in 1..Len(r.out) :
        Obtain("Binary", "set", r.out[n], "recv")

\* the same, the held set being the argument
ObtainFromArgument(b) ==
    \E r \in BinaryResults(kind, b, items) : \E n \in 1..Len(r.out) :
        Obtain("Binary", "set", r.out[n], "arg")

\* Merge / Intersect of the held set alone, which return its clone
ObtainFromMany ==
    /\ kind = "Ordered"
    /\ \E r \in {Merge(HandlesOf(<<items>>))} \cup Intersect(HandlesOf(<<items>>)) :
          Obtain("Many", "set", r.out[1], "recv")

\* the effect of changing one of the two slices from old to new on the other
\* slice, which holds seen: none unless they share the array and the change
\* fits its capacity (a longer slice moves to a new array)
Other(old, new, zeroes, seen) ==
    IF res.shared /\ Len(new) <= Len(res.mem)
    THEN View(Written(kind, res.mem, old, new, zeroes), Len(seen))
    ELSE seen

\* what is known of the value after the call: the cells of a shared array, or
\* that the array is no longer shared
Moved(by, old, new, zeroes) ==
    IF ~res.shared
    THEN [res EXCEPT !.by = by]
    ELSE IF Len(new) <= Len(res.mem)
    THEN [res EXCEPT !.by = by, !.mem = Written(kind, res.mem, old, new, zeroes)]
    ELSE [res EXCEPT !.by = by, !.shared = FALSE, !.mem = <<>>]

\* a mutating call on the set the value was taken from
SourceMutated ==
    /\ res.op # "none"
    /\ \E m \in MutationsOf(kind, items) :
          /\ items' = m.items
          /\ otherItems' = Other(items, m.items, m.zeroes, otherItems)
          /\ res' = Moved("source", items, m.items, m.zeroes)
    /\ UNCHANGED <<kind, last, prior, it, sets>>

\* a mutating call on the set that was returned
CopyMutated ==
    /\ res.op # "none"
    /\ res.form = "set"
    /\ \E m \in MutationsOf(kind, otherItems) :
          /\ otherItems' = m.items
          /\ items' = Other(otherItems, m.items, m.zeroes, items)
          /\ res' = Moved("copy", otherItems, m.items, m.zeroes)
    /\ UNCHANGED <<kind, last, prior, it, sets>>

\* the caller assigns to an element of the slice that was returned: r[i] = v
CopyWritten(i) ==
    /\ res.op # "none"
    /\ res.form = "slice"
    /\ i < Len(otherItems)
    /\ LET new == [otherItems EXCEPT ![i + 1] = Marker(kind)]
       IN  /\ otherItems' = new
           /\ items' = Other(otherItems, new, FALSE, items)
           /\ res' = Moved("copy", otherItems, new, FALSE)
    /\ UNCHANGED <<kind, last, prior, it, sets>>

\* the caller appends to the slice that was returned: r = append(r, v)
CopyAppended ==
    /\ res.op # "none"
    /\ res.form = "slice"
    /\ Len(otherItems) <= MaxElem
    /\ LET new == Append(otherItems, Marker(kind))
       IN  /\ otherItems' = new
           /\ items' = Other(otherItems, new, FALSE, items)
           /\ res' = Moved("copy", otherItems, new, FALSE)
    /\ UNCHANGED <<kind, last, prior, it, sets>>

NextStore ==
    \/ Untouched /\ ObtainClone
    \/ Untouched /\ ObtainItems
    \/ Untouched /\ \E k \in Counts : ObtainMinK(k)
    \/ Untouched /\ \E k \in Counts : ObtainMaxK(k)
    \/ Untouched /\ \E b \in StoreSets(kind) : ObtainFromReceiver(b)
    \/ Untouched /\ \E b \in StoreSets(kind) : ObtainFromArgument(b)
    \/ Untouched /\ ObtainFromMany
    \/ SourceMutated
    \/ CopyMutated
    \/ \E i \in 0..MaxElem : CopyWritten(i)
    \/ CopyAppended

SpecStore == InitStore /\ [][NextStore]_vars

(***************************************************************************)
(* Range iteration over a set that changes on the way: the consumer takes  *)
(* one range iterator, and between the turns of its loop the set is        *)
(* mutated. res records that a mutation came in between and the size the   *)
(* set had when the iterator was taken.                                    *)
(***************************************************************************)
Mutated(size) == [op |-> "mutated", size |-> size]

\* a mutating call that leaves the items s, made while the iterator is live
Intervene(s) ==
    /\ it.state = "running"
    /\ items' = s
    /\ res' = Mutated(IF res.op = "none" THEN Len(items) ELSE res.size)
    /\ UNCHANGED <<kind, last, prior, it, otherItems, sets>>

InterveneAdd(e) ==
    Intervene((IF kind = "Ordered" THEN Ordered_Add(items, e) ELSE Custom_Add(items, e)).items)

InterveneRemove(e) ==
    Intervene((IF kind = "Ordered" THEN Ordered_Remove(items, e)
               ELSE Custom_Remove(items, e)).items)

InterveneRemoveBefore(max) ==
    Intervene((IF kind = "Ordered" THEN Ordered_RemoveBefore(items, max)
               ELSE Custom_RemoveBefore(items, max)).items)

InterveneRemoveFrom(min) ==
    Intervene((IF kind = "Ordered" THEN Ordered_RemoveFrom(items, min)
               ELSE Custom_RemoveFrom(items, min)).items)

InterveneRemoveBetween(min, max) ==
    LET r == IF kind = "Ordered" THEN Ordered_RemoveBetween(items, min, max)
             ELSE Custom_RemoveBetween(items, min, max)
    IN  ~r.err /\ Intervene(r.items)

InterveneClear ==
    Intervene(IF kind = "Ordered" THEN Ordered_Clear(items) ELSE Custom_Clear(items))

\* each run takes one iterator
NoRange == it = NoIter

NextLive ==
    \/ NoRange /\ \E min, max \in StoreProbes(kind) : BetweenAsc(min, max)
    \/ AscStep
    \/ NoRange /\ \E max, min \in StoreProbes(kind) : BetweenDesc(max, min)
    \/ DescStep
    \/ \E e \in StoreElems(kind) : InterveneAdd(e)
    \/ \E e \in StoreElems(kind) : InterveneRemove(e)
    \/ \E max \in StoreProbes(kind) : InterveneRemoveBefore(max)
    \/ \E min \in StoreProbes(kind) : InterveneRemoveFrom(min)
    \/ \E min, max \in StoreProbes(kind) : InterveneRemoveBetween(min, max)
    \/ InterveneClear

\* the consumer keeps ranging: a loop that can take a turn takes it
SpecLive == InitStore /\ [][NextLive]_vars /\ WF_vars(AscStep) /\ WF_vars(DescStep)

(***************************************************************************)
(* The program that builds two empty sets of one type with different       *)
(* capacities and makes every call on both: items and capA are the first   *)
(* set's slice and its capacity, otherItems and capB the second's. res     *)
(* holds the call, the two capacities and what the call returned on each.  *)
(***************************************************************************)
testCapacity == 30

PositiveCapacities == {c \in Capacities : c > 0} \cup {testCapacity}

\* slices.Insert on a slice of capacity c: within the capacity it writes in
\* place; beyond it the slice moves to a larger array, whose capacity is the
\* runtime's choice (the length needed, or twice the old capacity)
InsertCap_Full(s, c, i, v) ==
    IF Len(s) + 1 <= c
    THEN [items |-> Insert(s, i, v), caps |-> {c}]
    ELSE [items |-> s, caps |-> {c}]

InsertCap(s, c, i, v) ==
    [items |-> Insert(s, i, v),
     caps |-> IF Len(s) + 1 <= c THEN {c} ELSE {Len(s) + 1, 2 * c}]

\* what a call does to a set with the items s and the capacity c: what it
\* returns, the items and the possible capacities after it
Done(ret, s, caps) == [ret |-> ret, items |-> s, caps |-> caps]

Ordered_AddCap(s, c, e) ==
    LET r == BinarySearch(s, e)
    IN  IF r.found THEN Done(FALSE, s, {c})
        ELSE Done(TRUE, InsertCap(s, c, r.pos, e).items, InsertCap(s, c, r.pos, e).caps)

Custom_AddCap(s, c, e) ==
    LET r == BinarySearchFunc(s, e)
    IN  IF r.found THEN Done(FALSE, s, {c})
        ELSE Done(TRUE, InsertCap(s, c, r.pos, e).items, InsertCap(s, c, r.pos, e).caps)

AddCap(k, s, c, e) == IF k = "Ordered" THEN Ordered_AddCap(s, c, e) ELSE Custom_AddCap(s, c, e)

\* the calls that remove: slices.Delete and s.items[:0] keep the array
RemovalsOf(k) ==
    {<<"Remove", <<e>>>> : e \in StoreElems(k)}
    \cup {<<"RemoveBefore", <<e>>>> : e \in StoreProbes(k)}
    \cup {<<"RemoveFrom", <<e>>>> : e \in StoreProbes(k)}
    \cup {<<"RemoveBetween", <<e, f>>>> : e \in StoreProbes(k), f \in StoreProbes(k)}
    \cup {<<"Clear", <<>>>>}

RemovalCap(k, s, c, call) ==
    LET a == call[2]
    IN  CASE call[1] = "Remove" ->
                LET r == IF k = "Ordered" THEN Ordered_Remove(s, a[1]) ELSE Custom_Remove(s, a[1])
                IN  Done(r.ok, r.items, {c})
          [] call[1] = "RemoveBefore" ->
                LET r == IF k = "Ordered" THEN Ordered_RemoveBefore(s, a[1])
                         ELSE Custom_RemoveBefore(s, a[1])
                IN  Done(r.n, r.items, {c})
          [] call[1] = "RemoveFrom" ->
                LET r == IF k = "Ordered" THEN Ordered_RemoveFrom(s, a[1])
                         ELSE Custom_RemoveFrom(s, a[1])
                IN  Done(r.n, r.items, {c})
          [] call[1] = "RemoveBetween" ->
                LET r == IF k = "Ordered" THEN Ordered_RemoveBetween(s, a[1], a[2])
                         ELSE Custom_RemoveBetween(s, a[1], a[2])
                IN  Done(IF r.err THEN "panic" ELSE r.n, r.items, {c})
          [] OTHER ->
                Done("none", IF k = "Ordered" THEN Ordered_Clear(s) ELSE Custom_Clear(s), {c})

\* the calls that read
ReadsOf(k) ==
    {<<"Size", <<>>>>, <<"Items", <<>>>>, <<"Min", <<>>>>, <<"Max", <<>>>>}
    \cup {<<"Contains", <<e>>>> : e \in StoreProbes(k)}
    \cup {<<"Find", <<e>>>> : e \in StoreProbes(k)}
    \cup {<<"At", <<i>>>> : i \in Counts}
    \cup {<<"MinK", <<i>>>> : i \in Counts}
    \cup {<<"MaxK", <<i>>>> : i \in Counts}

ReadCap(k, s, c, call) ==
    LET a == call[2]
        o == k = "Ordered"
    IN  CASE call[1] = "Size" -> Done(IF o THEN Ordered_Size(s) ELSE Custom_Size(s), s, {c})
          [] call[1] = "Items" -> Done(IF o THEN Ordered_Items(s) ELSE Custom_Items(s), s, {c})
          [] call[1] = "Min" ->
                LET r == IF o THEN Ordered_Min(s) ELSE Custom_Min(s)
                IN  Done(IF r.err THEN "panic" ELSE r.v, s, {c})
          [] call[1] = "Max" ->
                LET r == IF o THEN Ordered_Max(s) ELSE Custom_Max(s)
                IN  Done(IF r.err THEN "panic" ELSE r.v, s, {c})
          [] call[1] = "Contains" ->
                Done(IF o THEN Ordered_Contains(s, a[1]) ELSE Custom_Contains(s, a[1]), s, {c})
          [] call[1] = "Find" ->
                Done(IF o THEN Ordered_Find(s, a[1]) ELSE Custom_Find(s, a[1]), s, {c})
          [] call[1] = "At" ->
                LET r == IF o THEN Ordered_At(s, a[1]) ELSE Custom_At(s, a[1])
                IN  Done(IF r.err THEN "panic" ELSE r.v, s, {c})
          [] call[1] = "MinK" ->
                LET r == IF o THEN Ordered_MinK(s, a[1]) ELSE Custom_MinK(s, a[1])
                IN  Done(IF r.err THEN "panic" ELSE r.out.items, s, {c})
          [] OTHER ->
                LET r == IF o THEN Ordered_MaxK(s, a[1]) ELSE Custom_MaxK(s, a[1])
                IN  Done(IF r.err THEN "panic" ELSE r.out.items, s, {c})

\* IsEqual: slices.Equal for Ordered, slices.EqualFunc with cmp.equal for Custom
Ordered_IsEqual(s, other) == s = other

Custom_IsEqual(s, other) ==
    Len(s) = Len(other) /\ \A i \in 1..Len(s) : equal(s[i], other[i])

Twin(op, args, ca, cb, ra, rb) ==
    [op |-> op, args |-> args, capA |-> ca, capB |-> cb, retA |-> ra, retB |-> rb]

InitTwin ==
    /\ kind \in {"Ordered", "Custom"}
    /\ \E ca, cb \in PositiveCapacities :
          /\ ca < cb
          /\ items = (IF kind = "Ordered" THEN New(ca) ELSE NewCustom("PersonCmp", ca)).items
          /\ otherItems = (IF kind = "Ordered" THEN New(cb) ELSE NewCustom("PersonCmp", cb)).items
          /\ res = Twin("New", <<>>, ca, cb, "none", "none")
    /\ last = Call(IF kind = "Ordered" THEN "New" ELSE "NewCustom", <<>>, FALSE, 0, FALSE, <<>>)
    /\ prior = NoPrior
    /\ it = NoIter
    /\ sets = <<>>

\* the same call made on both sets, with the outcomes a and b
Both(op, args, a, b) ==
    /\ items' = a.items
    /\ otherItems' = b.items
    /\ \E ca \in a.caps, cb \in b.caps : res' = Twin(op, args, ca, cb, a.ret, b.ret)
    /\ UNCHANGED <<kind, last, prior, it, sets>>

BothAdd(e) ==
    Both("Add", <<e>>, AddCap(kind, items, res.capA, e), AddCap(kind, otherItems, res.capB, e))

BothRemove(call) ==
    Both(call[1], call[2], RemovalCap(kind, items, res.capA, call),
         RemovalCap(kind, otherItems, res.capB, call))

BothRead(call) ==
    Both(call[1], call[2], ReadCap(kind, items, res.capA, call),
         ReadCap(kind, otherItems, res.capB, call))

\* a.IsEqual(b) and b.IsEqual(a)
BothIsEqual ==
    Both("IsEqual", <<>>,
         Done(IF kind = "Ordered" THEN Ordered_IsEqual(items, otherItems)
              ELSE Custom_IsEqual(items, otherItems), items, {res.capA}),
         Done(IF kind = "Ordered" THEN Ordered_IsEqual(otherItems, items)
              ELSE Custom_IsEqual(otherItems, items), otherItems, {res.capB}))

NextTwin ==
    \/ \E e \in StoreElems(kind) : BothAdd(e)
    \/ \E call \in RemovalsOf(kind) : BothRemove(call)
    \/ \E call \in ReadsOf(kind) : BothRead(call)
    \/ BothIsEqual

SpecTwin == InitTwin /\ [][NextTwin]_vars

(***************************************************************************)
(* The ordering and the sets the properties speak of, stated on the keys   *)
(* (an int is its own key, a Person is ordered by its ID)                  *)
(***************************************************************************)
Key(k, e) == IF k = "Ordered" THEN e ELSE e.ID

Range(s) == {s[i] : i \in 1..Len(s)}

Keys(k, s) == {Key(k, s[i]) : i \in 1..Len(s)}

StrictlyAscending(k, s) == \A i \in 1..(Len(s) - 1) : Key(k, s[i]) < Key(k, s[i + 1])

NoEquals(k, s) == \A i, j \in 1..Len(s) : i # j => Key(k, s[i]) # Key(k, s[j])

\* the elements of s whose key is in Ks, in the order of s
RECURSIVE Keep(_, _, _)
Keep(k, s, Ks) ==
    IF s = <<>> THEN <<>>
    ELSE LET rest == Keep(k, SubSeq(s, 2, Len(s)), Ks)
         IN  IF Key(k, s[1]) \in Ks THEN <<s[1]>> \o rest ELSE rest

Below(k, e) == {x \in Elems : x < Key(k, e)}

Above(k, e) == {x \in Elems : x > Key(k, e)}

\* C1: after any sequence of NewFrom / NewCustomFrom, Add, Remove, RemoveBefore,
\* RemoveFrom, RemoveBetween and Clear, the items are strictly ascending under
\* the ordering and no two of them compare equal.
SortedUnique == StrictlyAscending(kind, items) /\ NoEquals(kind, items)

SortedUniqueWitness ==
    /\ kind = "Custom"
    /\ last.op = "Add"
    /\ last.ok
    /\ Len(items) >= 3
    /\ last.args[1] = items[2]

\* C2: Add(e) returns true exactly when no element equivalent to e is in the
\* set; then the items are the old items with e put at its sorted place, all
\* others in the same order. Otherwise it returns false and the items are
\* unchanged. Add of 20, 10, 20 on an empty set returns true, true, false and
\* leaves [10,20].
AddContract ==
    /\ last.op = "Add" =>
           LET e == last.args[1]
           IN  /\ last.ok <=> Key(kind, e) \notin Keys(kind, last.pre)
               /\ last.ok =>
                      items = Keep(kind, last.pre, Below(kind, e)) \o <<e>>
                                 \o Keep(kind, last.pre, Above(kind, e))
               /\ ~last.ok => items = last.pre
    /\ LET a == Ordered_Add(New(defaultCapacity).items, 20)
           b == Ordered_Add(a.items, 10)
           c == Ordered_Add(b.items, 20)
       IN  <<a.ok, b.ok, c.ok>> = <<TRUE, TRUE, FALSE>> /\ c.items = <<10, 20>>

\* e went between two elements that were already there
AddContractWitness ==
    /\ last.op = "Add"
    /\ last.ok
    /\ Len(last.pre) >= 2
    /\ \E i \in 2..(Len(items) - 1) : items[i] = last.args[1]

\* C3: Remove(e) returns true exactly when an element equivalent to e is in the
\* set; then the items are the old items without that one element, all others
\* in order. Otherwise it returns false and the items are unchanged.
RemoveContract ==
    last.op = "Remove" =>
        LET e == last.args[1]
        IN  /\ last.ok <=> Key(kind, e) \in Keys(kind, last.pre)
            /\ last.ok => items = Keep(kind, last.pre, Elems \ {Key(kind, e)})
            /\ last.ok => Len(items) = Len(last.pre) - 1
            /\ ~last.ok => items = last.pre

\* a Custom element is removed by a probe that differs from it in the Name
RemoveContractWitness ==
    /\ kind = "Custom"
    /\ last.op = "Remove"
    /\ last.ok
    /\ Len(items) >= 2
    /\ \E i \in 2..(Len(last.pre) - 1) :
          /\ last.pre[i].ID = last.args[1].ID
          /\ last.pre[i].Name # last.args[1].Name

\* C4 as stated: Add(e) and then immediately Remove(e) restores the items the
\* set had before the Add, for every set and every e.
AddRemoveRestores ==
    (last.op = "Remove" /\ prior.op = "Add") => items = prior.pre

\* C4 amended: Add(e) that returns true (no element equivalent to e was in
\* the set) and then immediately Remove(e) restores the items the set had
\* before the Add: the Remove returns true and deletes the element just added.
AddRemoveRestoresIfAdded ==
    (last.op = "Remove" /\ prior.op = "Add" /\ prior.ok) =>
        /\ last.ok
        /\ items = prior.pre

AddRemoveWitness ==
    /\ last.op = "Remove"
    /\ prior.op = "Add"
    /\ prior.ok
    /\ Len(items) >= 2
    /\ items = prior.pre

\* C5: in every reachable set and for every e: Contains(e) iff Find(e) reports
\* found (iff an element equivalent to e is in the set); when found,
\* At(position) is an element equivalent to e; when not found, position is the
\* number of elements strictly less than e; always 0 <= position <= Size().
FindContract ==
    \A e \in ElemsOf(kind) :
        LET contains == IF kind = "Ordered"
                        THEN Ordered_Contains(items, e)
                        ELSE Custom_Contains(items, e)
            f == IF kind = "Ordered" THEN Ordered_Find(items, e) ELSE Custom_Find(items, e)
            at == IF kind = "Ordered" THEN Ordered_At(items, f.pos) ELSE Custom_At(items, f.pos)
            size == IF kind = "Ordered" THEN Ordered_Size(items) ELSE Custom_Size(items)
        IN  /\ contains <=> f.found
            /\ f.found <=> Key(kind, e) \in Keys(kind, items)
            /\ f.found => ~at.err /\ Key(kind, at.v) = Key(kind, e)
            /\ ~f.found =>
                   f.pos = Cardinality({i \in 1..Len(items) : Key(kind, items[i]) < Key(kind, e)})
            /\ 0 <= f.pos /\ f.pos <= size

\* a set in which one probe is found past position 0 and another is missing
\* with its insertion point strictly inside
FindContractWitness ==
    /\ kind = "Custom"
    /\ last.op = "Remove"
    /\ \E e \in Person : Custom_Find(items, e).found /\ Custom_Find(items, e).pos >= 1
    /\ \E e \in Person :
          /\ ~Custom_Find(items, e).found
          /\ Custom_Find(items, e).pos > 0
          /\ Custom_Find(items, e).pos < Len(items)

\* C6: NewFrom(items...) and NewCustomFrom(cmp, items...) give a set whose items
\* are the batch sorted ascending with exactly one representative per class of
\* equal elements: the same elements as the batch, as many as the batch has
\* distinct ones; none when the batch is empty. [2,3,4,2,1,4] gives [1,2,3,4].
NewFromContract ==
    /\ last.op = "NewFrom" =>
           LET batch == last.args[1]
           IN  /\ ~last.err
               /\ kind = "Ordered"
               /\ StrictlyAscending(kind, items)
               /\ Range(items) = Range(batch)
               /\ Len(items) = Cardinality(Range(batch))
    /\ (last.op = "NewCustomFrom" /\ last.args[1] # "nil") =>
           LET batch == last.args[2]
           IN  /\ ~last.err
               /\ kind = "Custom"
               /\ StrictlyAscending(kind, items)
               /\ Keys(kind, items) = Keys(kind, batch)
               /\ Range(items) \subseteq Range(batch)
               /\ Len(items) = Cardinality(Keys(kind, batch))
    /\ NewFrom(<<2, 3, 4, 2, 1, 4>>).items = <<1, 2, 3, 4>>

\* a batch whose two equal elements are not adjacent and not in order
NewFromWitness ==
    /\ last.op = "NewFrom"
    /\ LET batch == last.args[1]
       IN  /\ Len(batch) = 3
           /\ batch[1] = batch[3]
           /\ batch[2] < batch[1]
    /\ Len(items) = 2

InRange(k, min, max) == {x \in Elems : Key(k, min) <= x /\ x < Key(k, max)}

\* C7: RemoveBetween(min, max) with min <= max removes exactly the elements e
\* with min <= e < max (an element equal to max stays), leaves the others in
\* place and in order and returns the number removed; 0 when none match.
\* RemoveBetween(2, 4) on [1,2,3,4] returns 2 and leaves [1,4].
RemoveBetweenContract ==
    /\ last.op = "RemoveBetween" =>
           LET min == last.args[1]
               max == last.args[2]
           IN  Key(kind, min) <= Key(kind, max) =>
                   /\ ~last.err
                   /\ items = Keep(kind, last.pre, Elems \ InRange(kind, min, max))
                   /\ last.n = Len(last.pre) - Len(items)
                   /\ last.n = Cardinality(Keys(kind, last.pre) \cap InRange(kind, min, max))
    /\ Ordered_RemoveBetween(<<1, 2, 3, 4>>, 2, 4) = [err |-> FALSE, items |-> <<1, 4>>, n |-> 2]

\* elements below min and max itself are kept, two in between are removed
RemoveBetweenWitness ==
    /\ last.op = "RemoveBetween"
    /\ last.n = 2
    /\ Len(last.pre) = 4
    /\ Len(items) = 2
    /\ Key(kind, items[2]) = Key(kind, last.args[2])
    /\ Key(kind, last.pre[2]) = Key(kind, last.args[1])

\* C8: RemoveBefore(max) removes exactly the elements strictly less than max
\* (an element equal to max stays), leaves the rest unchanged and in order and
\* returns the number removed, the decrease in Size(); it returns 0 and changes
\* nothing when no element is less than max.
RemoveBeforeContract ==
    last.op = "RemoveBefore" =>
        LET max == last.args[1]
        IN  /\ items = Keep(kind, last.pre, Elems \ Below(kind, max))
            /\ last.n = Len(last.pre) - Len(items)
            /\ last.n = Cardinality(Keys(kind, last.pre) \cap Below(kind, max))
            /\ last.n = 0 => items = last.pre

\* max is in the set, with elements on both sides
RemoveBeforeWitness ==
    /\ kind = "Custom"
    /\ last.op = "RemoveBefore"
    /\ last.n >= 1
    /\ Len(items) >= 2
    /\ Key(kind, items[1]) = Key(kind, last.args[1])

\* C9: RemoveFrom(min) removes exactly the elements greater than or equal to min
\* (an element equal to min goes), leaves the smaller ones unchanged and in
\* order and returns the number removed, the decrease in Size(); it returns 0
\* and changes nothing when every element is less than min.
RemoveFromContract ==
    last.op = "RemoveFrom" =>
        LET min == last.args[1]
        IN  /\ items = Keep(kind, last.pre, Below(kind, min))
            /\ last.n = Len(last.pre) - Len(items)
            /\ last.n = Cardinality(Keys(kind, last.pre) \ Below(kind, min))
            /\ last.n = 0 => items = last.pre

\* min is in the set, with elements on both sides
RemoveFromWitness ==
    /\ last.op = "RemoveFrom"
    /\ last.n >= 2
    /\ Len(items) >= 1
    /\ Key(kind, last.pre[Len(items) + 1]) = Key(kind, last.args[1])

\* the pairs (index, element) of the elements of s with lo <= key < hi, ascending
RECURSIVE AscPairs(_, _, _, _, _)
AscPairs(k, s, lo, hi, i) ==
    IF i > Len(s) THEN <<>>
    ELSE (IF lo <= Key(k, s[i]) /\ Key(k, s[i]) < hi THEN <<<<i - 1, s[i]>>>> ELSE <<>>)
             \o AscPairs(k, s, lo, hi, i + 1)

IsPrefix(p, s) == Len(p) <= Len(s) /\ p = SubSeq(s, 1, Len(p))

\* C10: for every set (an empty one too) and every min <= max, BetweenAsc(min,
\* max) consumed with no mutation in between yields, ascending and each with
\* its index, exactly the elements e with min <= e < max; nothing, and no
\* failure, when no element is in the range.
BetweenAscContract ==
    (it.state # "none" /\ it.dir = "asc") =>
        LET expected == AscPairs(kind, items, Key(kind, it.min), Key(kind, it.max), 1)
        IN  /\ it.state = "panicked" <=> Key(kind, it.max) < Key(kind, it.min)
            /\ it.state = "done" => it.out = expected
            /\ it.state \in {"running", "stopped"} => IsPrefix(it.out, expected)

\* the range starts past the first element, at min, and ends before max, which
\* is in the set
BetweenAscWitness ==
    /\ it.state = "done"
    /\ it.dir = "asc"
    /\ Len(it.out) = 1
    /\ it.out[1][1] = 1
    /\ Key(kind, it.out[1][2]) = Key(kind, it.min)
    /\ Len(items) = 3
    /\ Key(kind, items[3]) = Key(kind, it.max)

\* the pairs (index, element) of the elements of s with lo < key <= hi, descending
RECURSIVE DescPairs(_, _, _, _, _)
DescPairs(k, s, lo, hi, i) ==
    IF i < 1 THEN <<>>
    ELSE (IF lo < Key(k, s[i]) /\ Key(k, s[i]) <= hi THEN <<<<i - 1, s[i]>>>> ELSE <<>>)
             \o DescPairs(k, s, lo, hi, i - 1)

\* C11: for every set (an empty one too) and every max >= min, BetweenDesc(max,
\* min) consumed with no mutation in between yields, descending and each with
\* its index, exactly the elements e with min < e <= max; nothing, and no
\* failure, when no element is in that range.
BetweenDescContract ==
    (it.state # "none" /\ it.dir = "desc") =>
        LET expected == DescPairs(kind, items, Key(kind, it.min), Key(kind, it.max), Len(items))
        IN  /\ it.state = "panicked" <=> Key(kind, it.max) < Key(kind, it.min)
            /\ it.state # "crashed"
            /\ it.state = "done" => it.out = expected
            /\ it.state \in {"running", "stopped"} => IsPrefix(it.out, expected)

\* the same on sets that are not empty: the loop never dies on its index
BetweenDescNoCrashIfNonEmpty ==
    (it.state # "none" /\ it.dir = "desc" /\ Len(items) > 0) => it.state # "crashed"

\* the same where max is not below the smallest element
BetweenDescFromInside ==
    (it.state # "none" /\ it.dir = "desc" /\ Len(items) > 0
        /\ Key(kind, items[1]) <= Key(kind, it.max)) =>
        LET expected == DescPairs(kind, items, Key(kind, it.min), Key(kind, it.max), Len(items))
        IN  /\ it.state = "done" => it.out = expected
            /\ it.state \in {"running", "stopped"} => IsPrefix(it.out, expected)

\* a set whose smallest element is above max: the element is yielded all the same
BetweenDescYieldsAboveMax ==
    ~(/\ it.state = "done"
      /\ it.dir = "desc"
      /\ Len(it.out) = 1
      /\ Key(kind, it.out[1][2]) > Key(kind, it.max))

\* the two sets as they were before the last algebra call
PreA == last.pre
PreB == last.args[1]

AlgebraOps == {"Intersect", "Difference", "SymmetricDifference", "Union", "Partition"}

\* C12: every binary algebra operation (Intersect, Difference, Union,
\* SymmetricDifference, Partition) leaves both its sets as they were, the
\* empty sets and the call A op A included.
AlgebraLeavesInputs ==
    last.op \in AlgebraOps => (items = PreA /\ otherItems = PreB)

AlgebraLeavesInputsWitness ==
    /\ last.op = "Intersect"
    /\ kind = "Ordered"
    /\ PreA = <<1, 2, 3>>
    /\ PreB = <<2, 3>>
    /\ res.out[1].items = <<2, 3>>

\* the set that a binary operation returns for the sets a and b of type k
IntersectOf(k, a, b) ==
    IF k = "Ordered" THEN Ordered_Intersect(a, b).out[1].items ELSE Custom_Intersect(a, b).out[1].items

DifferenceOf(k, a, b) ==
    IF k = "Ordered" THEN Ordered_Difference(a, b).out[1].items ELSE Custom_Difference(a, b).out[1].items

UnionOf(k, a, b) ==
    IF k = "Ordered" THEN Ordered_Union(a, b).out[1].items ELSE Custom_Union(a, b).out[1].items

\* C13: A.Intersect(B) is the ascending sequence of the elements present in both
\* A and B, each once; empty when A or B is empty or when they share nothing;
\* [1,3,5,7] with [2,3,6,7] gives [3,7].
IntersectContract ==
    /\ last.op = "Intersect" =>
        LET r == res.out[1].items
        IN  /\ ~res.err
            /\ Len(res.out) = 1
            /\ StrictlyAscending(kind, r)
            /\ Keys(kind, r) = Keys(kind, PreA) \cap Keys(kind, PreB)
            /\ Range(r) \subseteq Range(PreA) \cup Range(PreB)
            /\ (PreA = <<>> \/ PreB = <<>> \/ Keys(kind, PreA) \cap Keys(kind, PreB) = {}) => r = <<>>
    /\ Ordered_Intersect(<<1, 3, 5, 7>>, <<2, 3, 6, 7>>).out[1].items = <<3, 7>>

IntersectWitness ==
    /\ last.op = "Intersect"
    /\ kind = "Ordered"
    /\ PreA = <<0, 1, 3>>
    /\ PreB = <<1, 2, 3>>
    /\ res.out[1].items = <<1, 3>>

\* C14: A.Union(B) is the ascending sequence of the elements present in A or in
\* B, an element of both appearing once; it equals B when A is empty and A when
\* B is empty.
UnionContract ==
    last.op = "Union" =>
        LET r == res.out[1].items
        IN  /\ ~res.err
            /\ Len(res.out) = 1
            /\ StrictlyAscending(kind, r)
            /\ Keys(kind, r) = Keys(kind, PreA) \cup Keys(kind, PreB)
            /\ Range(r) \subseteq Range(PreA) \cup Range(PreB)
            /\ PreA = <<>> => r = PreB
            /\ PreB = <<>> => r = PreA

UnionWitness ==
    /\ last.op = "Union"
    /\ kind = "Ordered"
    /\ PreA = <<0, 2>>
    /\ PreB = <<1, 2, 3>>
    /\ res.out[1].items = <<0, 1, 2, 3>>

\* C15: A.Difference(B) is the ascending sequence of the elements of A that are
\* not in B, the tail of A left when B is used up included; empty when A is
\* empty, equal to A when B is empty.
DifferenceContract ==
    last.op = "Difference" =>
        LET r == res.out[1].items
        IN  /\ ~res.err
            /\ Len(res.out) = 1
            /\ r = Keep(kind, PreA, Elems \ Keys(kind, PreB))
            /\ StrictlyAscending(kind, r)
            /\ PreA = <<>> => r = <<>>
            /\ PreB = <<>> => r = PreA

\* the last elements of A are above every element of B
DifferenceWitness ==
    /\ last.op = "Difference"
    /\ kind = "Ordered"
    /\ PreA = <<0, 2, 3>>
    /\ PreB = <<0, 1>>
    /\ res.out[1].items = <<2, 3>>

\* C16: A.SymmetricDifference(B) equals, element for element,
\* Difference(A, B).Union(Difference(B, A)).
SymmetricDifferenceContract ==
    last.op = "SymmetricDifference" =>
        /\ ~res.err
        /\ Len(res.out) = 1
        /\ res.out[1].items =
               UnionOf(kind, DifferenceOf(kind, PreA, PreB), DifferenceOf(kind, PreB, PreA))

SymmetricDifferenceWitness ==
    /\ last.op = "SymmetricDifference"
    /\ kind = "Custom"
    /\ Keys(kind, PreA) = {0, 1}
    /\ Keys(kind, PreB) = {1, 2, 3}
    /\ Keys(kind, res.out[1].items) = {0, 2, 3}

\* C17: A.Partition(B) returns (d12, inter, d21) equal to A.Difference(B),
\* A.Intersect(B) and B.Difference(A), and the three share no element.
PartitionContract ==
    last.op = "Partition" =>
        /\ ~res.err
        /\ Len(res.out) = 3
        /\ res.out[1].items = DifferenceOf(kind, PreA, PreB)
        /\ res.out[2].items = IntersectOf(kind, PreA, PreB)
        /\ res.out[3].items = DifferenceOf(kind, PreB, PreA)
        /\ Keys(kind, res.out[1].items) \cap Keys(kind, res.out[2].items) = {}
        /\ Keys(kind, res.out[1].items) \cap Keys(kind, res.out[3].items) = {}
        /\ Keys(kind, res.out[2].items) \cap Keys(kind, res.out[3].items) = {}

PartitionWitness ==
    /\ last.op = "Partition"
    /\ kind = "Ordered"
    /\ PreA = <<0, 1>>
    /\ PreB = <<1, 2, 3>>
    /\ res.out[1].items = <<0>>
    /\ res.out[2].items = <<1>>
    /\ res.out[3].items = <<2, 3>>

\* C18: the sizes of Intersect(A, B), Difference(A, B) and Difference(B, A)
\* add up to the size of Union(A, B).
AlgebraSizes ==
    last.op = "Union" =>
        Len(IntersectOf(kind, PreA, PreB)) + Len(DifferenceOf(kind, PreA, PreB))
            + Len(DifferenceOf(kind, PreB, PreA)) = Len(res.out[1].items)

AlgebraSizesWitness ==
    /\ last.op = "Union"
    /\ kind = "Custom"
    /\ Len(IntersectOf(kind, PreA, PreB)) = 1
    /\ Len(DifferenceOf(kind, PreA, PreB)) = 2
    /\ Len(DifferenceOf(kind, PreB, PreA)) = 1
    /\ Len(res.out[1].items) = 4

\* the items of the sets a slice of handles points to
ItemsOf(sets_) == [i \in 1..Len(sets_) |-> sets_[i].items]

\* s1.Union(s2).Union(s3)... over a sequence of items; empty for no set
RECURSIVE ChainedUnion(_)
ChainedUnion(ss) ==
    IF Len(ss) = 0 THEN <<>>
    ELSE IF Len(ss) = 1 THEN ss[1]
    ELSE Ordered_Union(ChainedUnion(SubSeq(ss, 1, Len(ss) - 1)), ss[Len(ss)]).out[1].items

\* C19: Merge(sets...) returns the set that chaining the binary Union over the
\* inputs gives; an empty set for no input or for inputs that are all empty; a
\* set equal to the input when there is one.
MergeContract ==
    last.op = "Merge" =>
        LET ss == ItemsOf(last.pre)
            r == res.out[1].items
        IN  /\ ~res.err
            /\ r = ChainedUnion(ss)
            /\ (\A i \in 1..Len(ss) : ss[i] = <<>>) => r = <<>>
            /\ Len(ss) = 1 => r = ss[1]

MergeWitness ==
    /\ last.op = "Merge"
    /\ ItemsOf(last.pre) = <<<<1, 2>>, <<0, 2>>, <<1>>>>
    /\ res.out[1].items = <<0, 1, 2>>

\* s1.Intersect(s2).Intersect(s3)... over a sequence of at least one items slice
RECURSIVE ChainedIntersect(_)
ChainedIntersect(ss) ==
    IF Len(ss) = 1 THEN ss[1]
    ELSE Ordered_Intersect(ChainedIntersect(SubSeq(ss, 1, Len(ss) - 1)), ss[Len(ss)]).out[1].items

\* C20: Intersect(sets...) returns the ascending elements present in every
\* input, which is what folding the binary Intersect over the inputs gives in
\* any order; an empty set for no input, a set equal to the input when there is
\* one, an empty set as soon as one input is empty; [1,2,3,4], [2,3,4,5],
\* [3,4,5,6] give [3,4].
IntersectSetsContract ==
    /\ last.op = "IntersectSets" =>
        LET ss == ItemsOf(last.pre)
            r == res.out[1].items
        IN  /\ ~res.err
            /\ Len(ss) = 0 => r = <<>>
            /\ Len(ss) = 1 => r = ss[1]
            /\ Len(ss) >= 1 =>
                /\ StrictlyAscending("Ordered", r)
                /\ Range(r) = {e \in SetElems : \A i \in 1..Len(ss) : e \in Range(ss[i])}
                /\ \A p \in Rearrangements(ss) : r = ChainedIntersect(p)
            /\ (\E i \in 1..Len(ss) : ss[i] = <<>>) => r = <<>>
    /\ \A x \in Intersect(HandlesOf(<<<<1, 2, 3, 4>>, <<2, 3, 4, 5>>, <<3, 4, 5, 6>>>>)) :
           x.out[1].items = <<3, 4>>

\* three sets of different sizes given largest first, sharing some elements
IntersectSetsWitness ==
    /\ last.op = "IntersectSets"
    /\ ItemsOf(last.pre) = <<<<0, 1, 2>>, <<1, 2>>, <<2>>>>
    /\ res.out[1].items = <<2>>

\* C21: for every set of N elements and every k >= 0, MinK(k) is the first
\* min(k, N) elements and MaxK(k) the last min(k, N) elements, in ascending
\* order; so k = 0 gives nothing and k >= N gives all the elements, on an
\* empty set too.
TopKContract ==
    /\ (last.op = "MinK" /\ last.args[1] >= 0) =>
        LET k == last.args[1]
            N == Len(items)
            r == last.out.items
        IN  /\ ~last.err
            /\ Len(r) = minInt(k, N)
            /\ \A i \in 1..Len(r) : r[i] = items[i]
            /\ k = 0 => r = <<>>
            /\ k >= N => r = items
    /\ (last.op = "MaxK" /\ last.args[1] >= 0) =>
        LET k == last.args[1]
            N == Len(items)
            r == last.out.items
        IN  /\ ~last.err
            /\ Len(r) = minInt(k, N)
            /\ \A i \in 1..Len(r) : r[i] = items[N - Len(r) + i]
            /\ k = 0 => r = <<>>
            /\ k >= N => r = items

\* MinK(2) on a set of three elements
TopKWitness ==
    /\ last.op = "MinK"
    /\ last.args = <<2>>
    /\ kind = "Ordered"
    /\ items = <<0, 2, 3>>
    /\ last.out.items = <<0, 2>>

\* MaxK(2) on a set of three elements, and MaxK past the size on an empty set
TopKSuffixReached ==
    \/ last.op = "MaxK" /\ last.args = <<2>> /\ items = <<0, 2, 3>> /\ last.out.items = <<2, 3>>
    \/ last.op = "MaxK" /\ last.args = <<1>> /\ items = <<>> /\ last.out.items = <<>>

\* C22: on a set that is not empty, however it was reached, Min returns the
\* element that no element is below and Max the element that no element is
\* above; on an empty set (built empty, cleared, or emptied by removals) each
\* panics.
MinMaxContract ==
    /\ last.op = "Min" =>
        /\ last.err <=> items = <<>>
        /\ ~last.err =>
            /\ last.out \in Range(items)
            /\ \A i \in 1..Len(items) : Key(kind, last.out) <= Key(kind, items[i])
    /\ last.op = "Max" =>
        /\ last.err <=> items = <<>>
        /\ ~last.err =>
            /\ last.out \in Range(items)
            /\ \A i \in 1..Len(items) : Key(kind, last.out) >= Key(kind, items[i])

MinMaxWitness ==
    /\ last.op = "Max"
    /\ kind = "Ordered"
    /\ items = <<0, 1, 3>>
    /\ last.out = 3

\* Min panics on a set emptied by a removal
MinOnEmptiedReached ==
    /\ last.op = "Min"
    /\ last.err
    /\ items = <<>>

\* the calls that panic do so exactly on their stated condition, and the items
\* are then as they were (a constructor that panics leaves no set)
FailureOfCalls ==
    /\ last.op = "New" =>
        /\ last.err <=> last.args[1] <= 0
        /\ last.err => (kind = "none" /\ items = <<>>)
    /\ last.op = "NewCustom" =>
        /\ last.err <=> (last.args[2] <= 0 \/ last.args[1] = "nil")
        /\ last.err => (kind = "none" /\ items = <<>>)
    /\ (last.op = "NewCustomFrom" /\ Len(last.args) = 2) =>
        /\ last.err <=> last.args[1] = "nil"
        /\ last.err => (kind = "none" /\ items = <<>>)
    /\ last.op = "NewFrom" => ~last.err
    /\ last.op = "At" =>
        /\ last.err <=> (last.args[1] < 0 \/ last.args[1] >= Len(last.pre))
        /\ items = last.pre
    /\ last.op \in {"Min", "Max"} =>
        /\ last.err <=> last.pre = <<>>
        /\ items = last.pre
    /\ last.op \in {"MinK", "MaxK"} =>
        /\ last.err <=> last.args[1] < 0
        /\ items = last.pre
    /\ last.op = "RemoveBetween" =>
        /\ last.err <=> Key(kind, last.args[2]) < Key(kind, last.args[1])
        /\ last.err => items = last.pre
    /\ last.op \in {"Add", "Remove", "RemoveBefore", "RemoveFrom", "Clear"} => ~last.err

\* BetweenAsc / BetweenDesc panic exactly when max < min
FailureOfRanges ==
    it.state # "none" => (it.state = "panicked" <=> Key(kind, it.max) < Key(kind, it.min))

\* consuming the iterator does not fail
NoFailureInRange == it.state # "crashed"

\* no step of an iterator, its creation and its panic included, changes the items
RangeLeavesItems == [][it' # it => items' = items]_vars

\* C23: every failure is raised before any mutation: a call that fails (New /
\* NewCustom with capacity <= 0, NewCustom / NewCustomFrom with a nil cmp, At(i)
\* with i outside [0, Size()), Min / Max on an empty set, MinK / MaxK with
\* k < 0, RemoveBetween, BetweenAsc or BetweenDesc with max < min) leaves the
\* items as they were, and those calls fail under no other condition.
FailureContract ==
    /\ [](FailureOfCalls /\ FailureOfRanges /\ NoFailureInRange)
    /\ RangeLeavesItems

\* the same without the claim that consuming a range never fails
FailureContractOfCalls ==
    /\ [](FailureOfCalls /\ FailureOfRanges)
    /\ RangeLeavesItems

\* RemoveBetween with max < min on a set that has elements in between
FailureReached ==
    /\ last.op = "RemoveBetween"
    /\ last.err
    /\ kind = "Ordered"
    /\ items = <<0, 1, 2>>
    /\ last.args = <<2, 0>>

\* C24: a value returned by Clone, Items, MinK, MaxK or a set operation (the
\* clone returned for an empty input too) shares no storage with the set it
\* came from: no mutation of the value changes the set's items, and no Add,
\* Remove, ranged removal or Clear on the set changes the value.
StorageIndependent ==
    [][res.op # "none" =>
          /\ res'.by = "source" => otherItems' = otherItems
          /\ res'.by = "copy" => items' = items]_vars

\* a clone that kept its elements after its source was cleared
StorageIndependentWitness ==
    /\ res.op = "Clone"
    /\ kind = "Ordered"
    /\ items = <<>>
    /\ otherItems = <<0, 1, 2>>

\* a slice from MinK written and appended to, the source as it was
StorageSliceReached ==
    /\ res.op = "MinK"
    /\ kind = "Ordered"
    /\ items = <<0, 1, 2>>
    /\ otherItems = <<0 - 1, 1, 0 - 1>>

\* the first element of the batch that compares equal to e
FirstEqual(batch, e) ==
    batch[CHOOSE j \in 1..Len(batch) :
            /\ cmp(batch[j], e) = 0
            /\ \A i \in 1..(j - 1) : cmp(batch[i], e) # 0]

\* C25: of the elements of the batch that compare equal under the comparator,
\* NewCustomFrom keeps the one that comes first in the batch, whatever the
\* length of the batch.
NewCustomFromKeepsFirst ==
    (last.op = "NewCustomFrom" /\ Len(last.args) = 2 /\ ~last.err) =>
        \A i \in 1..Len(items) : items[i] = FirstEqual(last.args[2], items[i])

\* a batch with two equal elements that differ in the Name
NewCustomFromEqualsReached ==
    /\ last.op = "NewCustomFrom"
    /\ Len(last.args) = 2
    /\ Len(last.args[2]) >= 2
    /\ last.args[2][1] = [ID |-> 1, Name |-> "b"]
    /\ last.args[2][2] = [ID |-> 1, Name |-> "a"]
    /\ items[2] = [ID |-> 1, Name |-> "b"]

IntersectSetsInputs ==
    (last.op = "IntersectSets" /\ Len(last.pre) >= 2) =>
        /\ Len(sets) = Len(last.pre)
        /\ \A h \in Range(last.pre) : \E i \in 1..Len(sets) : sets[i] = h
        /\ \A i \in 1..Len(sets) : \A j \in 1..Len(sets) : sets[i].id = sets[j].id => i = j
        /\ \A i \in 1..(Len(sets) - 1) :
              Ordered_Size(sets[i].items) <= Ordered_Size(sets[i + 1].items)

\* three sets given largest first with a non-empty intersection: the handles
\* come back reversed
IntersectSetsInputsWitness ==
    /\ last.op = "IntersectSets"
    /\ ItemsOf(last.pre) = <<<<0, 1, 2>>, <<0, 1>>, <<1>>>>
    /\ ItemsOf(sets) = <<<<1>>, <<0, 1>>, <<0, 1, 2>>>>
    /\ <<sets[1].id, sets[2].id, sets[3].id>> = <<3, 2, 1>>
    /\ res.out[1].items = <<1>>

\* Merge and Intersect(sets...) over every slice of up to MaxSets sets panic
\* on none
ManyNeverFail ==
    \A c \in SeqsUpTo(SmallSets, MaxSets) :
        /\ ~Merge(HandlesOf(c)).err
        /\ \A r \in Intersect(HandlesOf(c)) : ~r.err

\* C28: no algebra call on valid sets fails: Intersect, Difference, Union,
\* SymmetricDifference, Partition, Merge and Intersect(sets...) always hand a
\* capacity above zero to New / NewCustom, whatever the sizes of their inputs.
AlgebraNeverFails ==
    /\ last.op \in AlgebraOps => (~res.err /\ ~last.err)
    /\ ManyNeverFail

\* Intersect with an empty receiver: min(s.Size(), other.Size()) is 0
AlgebraNeverFailsWitness ==
    /\ last.op = "Intersect"
    /\ kind = "Ordered"
    /\ PreA = <<>>
    /\ PreB = <<0, 1>>
    /\ ~res.err
    /\ res.out[1].items = <<>>

\* the iterator's loop does not read s.items outside [0, Size()) once the set
\* has been mutated under it; the set was not empty when the iterator was taken
RangeReadsInside ==
    (res.op = "mutated" /\ res.size > 0) => it.state # "crashed"

\* the iterator's loop comes to an end
RangeTerminates == (it.state = "running") ~> (it.state # "running")

\* the ascending iterator alone, whose loop tests i < len(s.items) on every turn
RangeAscReadsInside ==
    (res.op = "mutated" /\ it.dir = "asc") => it.state # "crashed"

\* an ascending iterator that went on after a removal and ended
RangeAscMutatedReached ==
    /\ res.op = "mutated"
    /\ it.dir = "asc"
    /\ it.state = "done"
    /\ Len(it.out) = 2
    /\ Len(items) < res.size

\* C29: a range iterator from BetweenAsc or BetweenDesc that is consumed after
\* Add, Remove, RemoveBefore, RemoveFrom, RemoveBetween or Clear calls on its
\* set never reads a position outside [0, Size()) of the items as they are,
\* and terminates.
RangeSurvivesMutation == []RangeReadsInside /\ RangeTerminates

\* the elements of s that compare equal to an element of o which is not the
\* same in every field
Contested(s, o) ==
    {e \in Range(s) : \E f \in Range(o) : equal(e, f) /\ e # f}

\* every element of r that compares equal to an element of s is that element
FromReceiver(r, s) ==
    \A i \in 1..Len(r) : \A e \in Range(s) : equal(r[i], e) => r[i] = e

ReceiverElementKeptInUnionReached ==
    /\ kind = "Custom"
    /\ last.op = "Union"
    /\ Contested(PreA, PreB) # {}
    /\ Len(res.out[1].items) = 3

ReceiverElementKeptInPartitionReached ==
    /\ kind = "Custom"
    /\ last.op = "Partition"
    /\ Contested(PreA, PreB) # {}
    /\ Len(res.out[2].items) = 2

====
